---------------------------- MODULE Spec2Model ----------------------------
(***************************************************************************)
(* A model of the streaming pipeline of happyChatty: the utterance         *)
(* segmenter (utterance_segmenter.py), the sentiment cache and the         *)
(* fallback scorer (sentiment_analyzer.py), the event hub                  *)
(* (event_emitter.py), the profiler (performance_profiler.py), the audio   *)
(* capture (audio_capture.py) and the orchestrator (main.py).              *)
(*                                                                         *)
(* Each component, and each environment it is studied in, has its own      *)
(* specification (SpecSeg, SpecCache, SpecHub, ...), listed at the end:    *)
(* the variables the specification does not use keep their initial values. *)
(*                                                                         *)
(* Time is counted in ticks of 0.1 s, and every threshold of the code is   *)
(* a whole number of ticks.  The datetime.now() reads of one loop          *)
(* iteration are a few microseconds apart: each difference the code takes  *)
(* is a later read minus an earlier one, so that drift never changes the   *)
(* outcome of a comparison with a whole number of ticks, and the reads of  *)
(* one iteration are modelled as one read of `now`.  The clock moves in    *)
(* Tick, between calls and between the iterations of a call.               *)
(*                                                                         *)
(* A text is a sequence of one-character strings.  Python's None is the    *)
(* empty sequence, a present value x is <<x>>.                             *)
(***************************************************************************)
EXTENDS Integers, Sequences, FiniteSets, TLC

VARIABLES
    \* ---- UtteranceSegmenter --------------------------------------------
    now,                 \* the wall clock, datetime.now()
    current_utterance,   \* self.current_utterance
    last_activity_time,  \* self.last_activity_time
    pending_segments,    \* self.pending_segments
    seg_pc,              \* where process_segments is: "idle" or "loop"
    segment,             \* process_segments' loop variable (last fragment)
    segment_start,       \* process_segments' local segment_start
    segment_end,         \* process_segments' local segment_end
    utterances,          \* process_segments' result list
    fed,                 \* number of fragments handed to the segmenter so far
    \* ---- SentimentCache ------------------------------------------------
    cache,               \* self.cache, a dict: the (key, value) pairs in
                         \* insertion order
    max_size,            \* self.max_size
    cache_call,          \* the last call on the cache and what it returned
    \* ---- SentimentAnalyzer --------------------------------------------
    mock_calls,          \* the _mock_analysis calls made so far: the text
                         \* and the vector returned, in call order
    \* ---- EventEmitter --------------------------------------------------
    websocket_clients,   \* self.websocket_clients
    event_history,       \* self.event_history
    callbacks,           \* self.callbacks: the kind of each callback
    file_output,         \* self.file_output: None or <<path>>
    file,                \* the content of the sink file: None if it does
                         \* not exist, else <<sequence of tokens>>
    emit_pc,             \* where emit_event is: "idle", running ("next",
                         \* "write", "callbacks"), suspended in an await
                         \* ("send", "file", "callback"), or back at the
                         \* caller ("done", "raised")
    event,               \* emit_event's argument
    it_used,             \* the set iterator's si_used: the set's size when
                         \* the iteration began
    it_visited,          \* the subscribers the iteration has yielded
                         \* (the locals of _broadcast_to_websockets are
                         \* cleared when it ends)
    targets,             \* the subscribers in the set when emit_event began
    websocket,           \* _broadcast_to_websockets' loop variable
    file_failed,         \* whether _write_to_file caught an exception
    disconnected_clients,\* _broadcast_to_websockets' local list
    cb_index,            \* _call_callbacks' position in self.callbacks
    cb_log,              \* per callback called for `event`: "ok", "raised"
    conn,                \* per connection: "new", "open" or "closed"
    handler_pc,          \* per connection, where handle_client is
    replay,              \* per connection, handle_client's history slice
                         \* still to send
    received,            \* per connection, the messages written to it
    emitted,             \* number of events passed to emit_event so far
    \* ---- PerformanceProfiler -------------------------------------------
    prof_now,            \* the clock time.time() reads
    start_times,         \* self.start_times, a dict: key -> start time
    metrics,             \* self.metrics
    outstanding,         \* the keys start_timing returned whose end_timing
                         \* has not been called yet, in the order of issue
    prof_call,           \* the last call on the profiler and its outcome
    \* ---- SpeechAnalysisOrchestrator, AsyncAudioCapture -----------------
    is_running,          \* self.is_running
    processing_task,     \* self.processing_task: "none", or the task's
                         \* state: "running", "cancelled", "finished", or
                         \* "failed" (it ended with an exception)
    loop_pc,             \* where _processing_loop is
    transcription,       \* what the transcription call for the buffer
                         \* being processed came to; "none" between buffers
    utt_index,           \* the position of `for utterance in utterances`
    handled,             \* what became of each utterance the for loop
                         \* passed to _process_utterance, in that order
    is_recording,        \* audio_capture._is_recording
    thread_alive,        \* whether the recording thread is alive
    stop_pc,             \* per stop() call, where it is
    \* ---- AsyncAudioCapture's recording threads -------------------------
    rec_pc,              \* per recording thread, where _record_audio is:
                         \* "none" (not started), "check" (at the while
                         \* condition), "read" (in stream.read), "put"
                         \* (it holds a chunk to put) or "exited"
    recording_thread,    \* self._recording_thread: None or <<thread>>
    put_log,             \* the hand-off queue's history: the thread that
                         \* put each chunk, in the order of the puts
    cap_pc,              \* where stop_recording is: "idle" or "join"
    \* ---- _processing_loop's buffer ------------------------------------
    audio_buffer,        \* audio_buffer: the chunks it holds, in order
    consumed,            \* number of chunks the loop has taken so far
                         \* (chunks are numbered in arrival order)
    handed,              \* the buffers handed to the transcription so
                         \* far, one per call
    \* ---- start() called again -----------------------------------------
    servers,             \* the ports a websocket server listens on
    orphans              \* the _processing_loop tasks that still run and
                         \* that self.processing_task no longer refers to

segVars == <<now, current_utterance, last_activity_time, pending_segments,
             seg_pc, segment, segment_start, segment_end, utterances, fed>>
cacheVars == <<cache, max_size, cache_call, mock_calls>>
hubVars == <<websocket_clients, event_history, callbacks, file_output, file,
             emit_pc, event, it_used, it_visited, targets, websocket,
             file_failed, disconnected_clients, cb_index, cb_log, conn,
             handler_pc, replay, received, emitted>>
profVars == <<prof_now, start_times, metrics, outstanding, prof_call>>
capVars == <<rec_pc, recording_thread, put_log, cap_pc>>
bufVars == <<audio_buffer, consumed, handed>>
runVars == <<servers, orphans>>
orchVars == <<is_running, processing_task, loop_pc, transcription,
              utt_index, handled, is_recording, thread_alive, stop_pc,
              capVars, bufVars, runVars>>
vars == <<segVars, cacheVars, hubVars, profVars, orchVars>>

None == <<>>
Some(x) == <<x>>
Val(o) == o[1]

Last(s, n) == IF Len(s) <= n THEN s ELSE SubSeq(s, Len(s) - n + 1, Len(s))

(***************************************************************************)
(* Strings: str.split(), ' '.join(), str.strip(), str.lower()              *)
(***************************************************************************)
IsSpace(c) == c = " "

LowerChar(c) ==
    CASE c = "U" -> "u"
      [] c = "M" -> "m"
      [] OTHER -> c

Lower(w) == [i \in 1..Len(w) |-> LowerChar(w[i])]

RECURSIVE SplitFrom(_, _, _)
\* the words of s[i..], given the word `w` read so far
SplitFrom(s, i, w) ==
    IF i > Len(s)
    THEN IF w = <<>> THEN <<>> ELSE <<w>>
    ELSE IF IsSpace(s[i])
         THEN IF w = <<>> THEN SplitFrom(s, i + 1, <<>>)
                          ELSE <<w>> \o SplitFrom(s, i + 1, <<>>)
         ELSE SplitFrom(s, i + 1, Append(w, s[i]))

Split(s) == SplitFrom(s, 1, <<>>)

RECURSIVE Join(_)
Join(ws) ==
    IF ws = <<>> THEN <<>>
    ELSE IF Len(ws) = 1 THEN ws[1]
    ELSE ws[1] \o <<" ">> \o Join(Tail(ws))

RECURSIVE StripLeft(_)
StripLeft(s) ==
    IF s /= <<>> /\ IsSpace(s[1]) THEN StripLeft(Tail(s)) ELSE s

RECURSIVE StripRight(_)
StripRight(s) ==
    IF s /= <<>> /\ IsSpace(s[Len(s)])
    THEN StripRight(SubSeq(s, 1, Len(s) - 1)) ELSE s

Strip(s) == StripRight(StripLeft(s))

NonSpaceCount(s) == Cardinality({i \in 1..Len(s) : ~IsSpace(s[i])})

(***************************************************************************)
(* UtteranceSegmenter                                                      *)
(***************************************************************************)
min_pause_duration == 5
max_utterance_duration == 100
min_utterance_duration == 3
timeout_duration == 20
\* process_segments anchors a fragment's offsets at now() - 2.0 s
anchor_offset == 20

\* Bounds of the segmenter's environment
MaxFragments == 3
MaxTime == 45
Advance == {5, 20}       \* the steps in which the clock moves

ConfScale == 2 ^ (MaxFragments + 1)   \* confidence 1.0

T_hello == <<"h", "e", "l", "l", "o">>
T_world == <<"w", "o", "r", "l", "d">>
T_hi == <<"h", "i">>
T_ok == <<"o", "k">>
T_um == <<"U", "m">>
T_a == <<"a">>

Frag(sp, tx, s, e, c) ==
    [speaker |-> sp, text |-> tx, start_time |-> s, end_time |-> e,
     confidence |-> c]

\* The fragments the transcription collaborator may hand over
Fragments ==
    { Frag("S1", T_hello, 0, 10, ConfScale),
      Frag("S1", T_world, 12, 20, ConfScale),
      Frag("S1", T_world, 17, 25, ConfScale),
      Frag("S1", T_hi, 0, 10, ConfScale),
      Frag("S2", T_hi, 10, 20, ConfScale),
      Frag("S1", T_ok, 0, 2, ConfScale),
      Frag("S1", T_um, 0, 10, 0),
      Frag("S1", T_a, 0, 10, ConfScale),
      Frag("S1", <<>>, 12, 20, ConfScale),
      Frag("S1", <<" ">>, 0, 10, 0) }

Utterance(sp, tx, s, e, c, p) ==
    [speaker |-> sp, text |-> tx, start_time |-> s, end_time |-> e,
     confidence |-> c, pause_duration |-> p]

duration(u) == u.end_time - u.start_time

filler_words ==
    { <<"u", "h">>, <<"u", "m">>, <<"l", "i", "k", "e">>,
      <<"y", "o", "u", " ", "k", "n", "o", "w">>, <<"s", "o">>,
      <<"a", "c", "t", "u", "a", "l", "l", "y">> }

IsFiller(w) == Lower(w) \in filler_words

_clean_text(text) ==
    LET words == Split(Join(Split(text)))
    IN  Join(SelectSeq(words, LAMBDA w : ~IsFiller(w)))


\* mutant: the speaker change is not looked at
should_start_ignoring_speaker(cur, last, seg, seg_start) ==
    IF cur = None THEN TRUE
    ELSE IF last /= None /\ seg_start - Val(last) >= min_pause_duration
         THEN TRUE
    ELSE seg_start - Val(cur).start_time >= max_utterance_duration

_should_start_new_utterance(cur, last, seg, seg_start) ==
    IF cur = None THEN TRUE
    ELSE IF seg.speaker /= Val(cur).speaker THEN TRUE
    ELSE IF last /= None /\ seg_start - Val(last) >= min_pause_duration
         THEN TRUE
    ELSE seg_start - Val(cur).start_time >= max_utterance_duration

\* mutant: the end time is not advanced
continue_keeping_end(cur, seg, seg_end) ==
    IF cur = None THEN None
    ELSE LET u == Val(cur)
             text == IF u.text /= <<>> /\ seg.text /= <<>>
                     THEN u.text \o <<" ">> \o seg.text
                     ELSE IF seg.text /= <<>> THEN seg.text ELSE u.text
         IN  Some([u EXCEPT !.text = text])

_continue_current_utterance(cur, seg, seg_end) ==
    IF cur = None THEN None
    ELSE LET u == Val(cur)
             text == IF u.text /= <<>> /\ seg.text /= <<>>
                     THEN u.text \o <<" ">> \o seg.text
                     ELSE IF seg.text /= <<>> THEN seg.text ELSE u.text
             conf == IF u.confidence > 0
                     THEN (u.confidence + seg.confidence) \div 2
                     ELSE seg.confidence
         IN  Some([u EXCEPT !.text = text, !.end_time = seg_end,
                            !.confidence = conf])

_should_finalize_timeout(cur, last, t) ==
    IF cur = None \/ last = None THEN FALSE
    ELSE t - Val(last) >= timeout_duration

\* mutant: the minimum duration is not checked
finalize_any_duration(cur, last, t) ==
    IF cur = None THEN None
    ELSE LET u == [Val(cur) EXCEPT !.pause_duration =
                      IF last /= None THEN t - Val(last) ELSE @]
         IN  IF Strip(u.text) = <<>> \/ Len(Strip(u.text)) < 2 THEN None
             ELSE Some([u EXCEPT !.text = _clean_text(u.text)])

\* the utterance _finalize_current_utterance returns (None if it is
\* dropped), read at clock t; current_utterance is None afterwards
_finalize_current_utterance(cur, last, t) ==
    IF cur = None THEN None
    ELSE LET u == [Val(cur) EXCEPT !.pause_duration =
                      IF last /= None THEN t - Val(last) ELSE @]
         IN  IF duration(u) < min_utterance_duration THEN None
             ELSE IF Strip(u.text) = <<>> \/ Len(Strip(u.text)) < 2 THEN None
             ELSE Some([u EXCEPT !.text = _clean_text(u.text)])

InitSeg ==
    /\ now = anchor_offset
    /\ current_utterance = None
    /\ last_activity_time = None
    /\ pending_segments = <<>>
    /\ seg_pc = "idle"
    /\ segment = None
    /\ segment_start = None
    /\ segment_end = None
    /\ utterances = <<>>
    /\ fed = 0

\* process_segments is called: utterances = []
ProcessSegments ==
    /\ seg_pc = "idle"
    /\ seg_pc' = "loop"
    /\ utterances' = <<>>
    /\ UNCHANGED <<now, current_utterance, last_activity_time,
                   pending_segments, segment, segment_start, segment_end,
                   fed>>
    /\ UNCHANGED <<cacheVars, hubVars, profVars, orchVars>>

\* one iteration of process_segments' loop, for the next fragment seg
ProcessSegment(seg) ==
    /\ seg_pc = "loop"
    /\ fed < MaxFragments
    /\ LET s_start == now - anchor_offset + seg.start_time
           s_end == now - anchor_offset + seg.end_time
       IN  /\ segment' = Some(seg)
           /\ segment_start' = Some(s_start)
           /\ segment_end' = Some(s_end)
           /\ IF _should_start_new_utterance(current_utterance,
                                             last_activity_time, seg, s_start)
              THEN /\ utterances' = utterances \o
                          _finalize_current_utterance(current_utterance,
                                                      last_activity_time, now)
                   /\ current_utterance' =
                          Some(Utterance(seg.speaker, seg.text, s_start, s_end,
                                         seg.confidence, 0))
              ELSE /\ current_utterance' =
                          _continue_current_utterance(current_utterance, seg,
                                                      s_end)
                   /\ UNCHANGED utterances
           /\ last_activity_time' = Some(s_end)
    /\ fed' = fed + 1
    /\ UNCHANGED <<now, pending_segments, seg_pc>>
    /\ UNCHANGED <<cacheVars, hubVars, profVars, orchVars>>

\* the end of process_segments: the timeout check, then return utterances
ProcessReturn ==
    /\ seg_pc = "loop"
    /\ seg_pc' = "idle"
    /\ IF _should_finalize_timeout(current_utterance, last_activity_time, now)
       THEN /\ utterances' = utterances \o
                   _finalize_current_utterance(current_utterance,
                                               last_activity_time, now)
            /\ current_utterance' = None
       ELSE UNCHANGED <<utterances, current_utterance>>
    /\ UNCHANGED <<now, last_activity_time, pending_segments, segment,
                   segment_start, segment_end, fed>>
    /\ UNCHANGED <<cacheVars, hubVars, profVars, orchVars>>

\* mutant: the last activity time is kept
reset_keeping_last_activity ==
    /\ seg_pc = "idle"
    /\ pending_segments' = <<>>
    /\ current_utterance' = None
    /\ UNCHANGED <<now, last_activity_time, seg_pc, segment, segment_start,
                   segment_end, utterances, fed>>
    /\ UNCHANGED <<cacheVars, hubVars, profVars, orchVars>>

\* mutant: the open utterance is kept
reset_keeping_current_utterance ==
    /\ seg_pc = "idle"
    /\ pending_segments' = <<>>
    /\ last_activity_time' = None
    /\ UNCHANGED <<now, current_utterance, seg_pc, segment, segment_start,
                   segment_end, utterances, fed>>
    /\ UNCHANGED <<cacheVars, hubVars, profVars, orchVars>>

\* reset: pending_segments, current_utterance and last_activity_time are
\* cleared
reset ==
    /\ seg_pc = "idle"
    /\ pending_segments' = <<>>
    /\ current_utterance' = None
    /\ last_activity_time' = None
    /\ UNCHANGED <<now, seg_pc, segment, segment_start, segment_end,
                   utterances, fed>>
    /\ UNCHANGED <<cacheVars, hubVars, profVars, orchVars>>

\* time passes: between two calls, or between two fragments of a call
Tick(d) ==
    /\ now + d <= MaxTime
    /\ now' = now + d
    /\ UNCHANGED <<current_utterance, last_activity_time, pending_segments,
                   seg_pc, segment, segment_start, segment_end, utterances,
                   fed>>
    /\ UNCHANGED <<cacheVars, hubVars, profVars, orchVars>>

NextSeg ==
    \/ ProcessSegments
    \/ \E seg \in Fragments : ProcessSegment(seg)
    \/ ProcessReturn
    \/ reset
    \/ \E d \in Advance : Tick(d)

(***************************************************************************)
(* Properties of the segmenter (checked under SpecSeg)                     *)
(***************************************************************************)
\* a step that runs one iteration of process_segments' loop
FragmentStep == fed' = fed + 1
\* a step that ends a process_segments call
ReturnStep == seg_pc = "loop" /\ seg_pc' = "idle"

\* the fragment joins an open utterance of its speaker, less than the pause
\* threshold after that utterance's end and before the maximum duration
MergeCase ==
    /\ FragmentStep
    /\ current_utterance /= None
    /\ Val(segment').speaker = Val(current_utterance).speaker
    /\ Val(segment_start') - Val(current_utterance).end_time
          < min_pause_duration
    /\ Val(segment_start') - Val(current_utterance).start_time
          < max_utterance_duration

\* the fragment's speaker differs from the open utterance's, or it starts at
\* least the pause threshold after the last activity time
SplitCase ==
    /\ FragmentStep
    /\ current_utterance /= None
    /\ last_activity_time /= None
    /\ \/ Val(segment').speaker /= Val(current_utterance).speaker
       \/ Val(segment_start') - Val(last_activity_time) >= min_pause_duration

MergedSpan ==
    /\ current_utterance' /= None
    /\ Val(current_utterance').speaker = Val(current_utterance).speaker
    /\ Val(current_utterance').start_time = Val(current_utterance).start_time
    /\ Val(current_utterance').end_time = Val(segment_end')
    /\ utterances' = utterances

\* C1 as stated: a fragment in the merge case is merged into the open
\* utterance, whose text becomes old text + ' ' + fragment text, whose start
\* stays and whose end becomes the fragment's end.
C1_Original ==
    [][MergeCase =>
         /\ MergedSpan
         /\ Val(current_utterance').text =
              Val(current_utterance).text \o <<" ">> \o Val(segment').text
      ]_vars

\* C1 amended: a fragment in the merge case is merged into the open
\* utterance: the start stays, the end becomes the fragment's end, nothing is
\* finalized, and the text becomes old text + ' ' + fragment text when both
\* are non-empty; when one of the two is empty the text is the other one,
\* with no separator.
C1_Merge ==
    [][MergeCase =>
         /\ MergedSpan
         /\ Val(current_utterance').text =
              IF Val(current_utterance).text = <<>> THEN Val(segment').text
              ELSE IF Val(segment').text = <<>>
                   THEN Val(current_utterance).text
                   ELSE Val(current_utterance).text \o <<" ">>
                           \o Val(segment').text
      ]_vars

\* Scenario A: 'hello' 0.0-1.0 then 'world' 1.2-2.0 are one open utterance
\* 'hello world' of 2.0 s
C1_Witness ==
    /\ current_utterance /= None
    /\ Val(current_utterance).text = T_hello \o <<" ">> \o T_world
    /\ duration(Val(current_utterance)) = 20
    /\ segment = Some(Frag("S1", T_world, 12, 20, ConfScale))
    /\ utterances = <<>>

\* C2: a fragment of another speaker, or one that starts at least the pause
\* threshold after the last activity time, is never merged: the new open
\* utterance is made of that fragment alone, and the utterance that was open
\* has been finalized: returned as it was (speaker, start, end), or dropped.
C2_Split ==
    [][SplitCase =>
         /\ current_utterance' =
              Some(Utterance(Val(segment').speaker, Val(segment').text,
                             Val(segment_start'), Val(segment_end'),
                             Val(segment').confidence, 0))
         /\ \/ utterances' = utterances
            \/ /\ Len(utterances') = Len(utterances) + 1
               /\ SubSeq(utterances', 1, Len(utterances)) = utterances
               /\ LET u == utterances'[Len(utterances')]
                      c == Val(current_utterance)
                  IN  /\ u.speaker = c.speaker
                      /\ u.start_time = c.start_time
                      /\ u.end_time = c.end_time
      ]_vars

\* Scenario C: 'hi' of S1 at 0-1.0 is returned, 'hi' of S2 at 1.0-2.0 (zero
\* gap) is the new open utterance
C2_Witness ==
    /\ Len(utterances) = 1
    /\ utterances[1].speaker = "S1"
    /\ utterances[1].text = T_hi
    /\ current_utterance /= None
    /\ Val(current_utterance).speaker = "S2"
    /\ Val(current_utterance).text = T_hi
    /\ Val(current_utterance).start_time = utterances[1].end_time

\* C3 as stated: no returned utterance has a text with fewer than 2
\* non-whitespace characters after cleaning.
C3_Original ==
    \A i \in 1..Len(utterances) :
        NonSpaceCount(_clean_text(utterances[i].text)) >= 2

\* C4: no returned utterance is shorter than the minimum duration, and a
\* timed-out candidate that short is dropped: nothing is returned for it and
\* no utterance is open afterwards.
C4_MinDuration ==
    [][/\ \A i \in 1..Len(utterances') :
             duration(utterances'[i]) >= min_utterance_duration
       /\ ( /\ ReturnStep
            /\ current_utterance /= None
            /\ last_activity_time /= None
            /\ now - Val(last_activity_time) >= timeout_duration
            /\ duration(Val(current_utterance)) < min_utterance_duration )
          => (current_utterance' = None /\ utterances' = utterances)
      ]_vars

\* Scenario E: the fragment 'ok' of 0.2 s was finalized and nothing came out
C4_Witness ==
    /\ seg_pc = "idle"
    /\ fed = 1
    /\ segment = Some(Frag("S1", T_ok, 0, 2, ConfScale))
    /\ last_activity_time = segment_end
    /\ current_utterance = None
    /\ utterances = <<>>

\* a step of reset, taken between two process_segments calls, that changes
\* the segmenter
ResetStep ==
    /\ seg_pc = "idle"
    /\ seg_pc' = "idle"
    /\ now' = now
    /\ <<current_utterance, last_activity_time, pending_segments>>'
          /= <<current_utterance, last_activity_time, pending_segments>>

\* C28: reset leaves no open utterance, no last activity time and no
\* pending segment; from a segmenter without an open utterance the next
\* fragment returns nothing and opens an utterance made of that fragment
\* alone, and the end of a call returns nothing.
C28_Reset ==
    [][/\ ResetStep
             => /\ current_utterance' = None
                /\ last_activity_time' = None
                /\ pending_segments' = <<>>
       /\ (FragmentStep /\ current_utterance = None)
             => /\ utterances' = utterances
                /\ current_utterance' /= None
                /\ Val(current_utterance').text = Val(segment').text
                /\ Val(current_utterance').start_time = Val(segment_start')
                /\ Val(current_utterance').confidence
                      = Val(segment').confidence
       /\ (ReturnStep /\ current_utterance = None)
             => utterances' = utterances
      ]_vars

\* reset was called while an utterance was open: fragments were processed,
\* no time has passed that could have closed the utterance, and the
\* segmenter is Idle
C28_Witness ==
    /\ seg_pc = "idle"
    /\ fed > 0
    /\ now = anchor_offset
    /\ current_utterance = None
    /\ last_activity_time = None
    /\ pending_segments = <<>>

\* a step that merges the fragment into the open utterance
MergeStep ==
    /\ FragmentStep
    /\ current_utterance /= None
    /\ ~_should_start_new_utterance(current_utterance, last_activity_time,
                                    Val(segment'), Val(segment_start'))

\* C30 as stated: on every merge the confidence becomes the mean of the
\* old confidence and the fragment's, and stays within [0, 1].
C30_Original ==
    [][MergeStep
          => /\ 2 * Val(current_utterance').confidence
                   = Val(current_utterance).confidence
                        + Val(segment').confidence
             /\ Val(current_utterance').confidence \in 0..ConfScale
      ]_vars

\* C39: between the iterations of process_segments and between the calls
\* of process_segments and reset, an open utterance ends at the last
\* activity time, there is no open utterance while the last activity time
\* is unset, and at most one utterance is open.
C39_Activity ==
    /\ Len(current_utterance) <= 1
    /\ current_utterance /= None
          => last_activity_time = Some(Val(current_utterance).end_time)
    /\ last_activity_time = None => current_utterance = None

\* an utterance is open after a second fragment was merged into it
C39_Witness ==
    /\ fed >= 2
    /\ current_utterance /= None
    /\ Val(current_utterance).end_time = Val(segment_end)
    /\ Val(current_utterance).start_time < Val(segment_start)

(***************************************************************************)
(* The segmenter fed with long fragments and with filler words (SpecTalk)  *)
(***************************************************************************)
T_you_know == <<"y", "o", "u", " ", "k", "n", "o", "w">>
T_So == <<"S", "o">>

\* two fragments of one speaker 0.1 s apart that span 11 s together, and
\* fragments whose words are on the filler list
TalkFragments ==
    { Frag("S1", T_hello, 0, 98, ConfScale),
      Frag("S1", T_world, 99, 110, ConfScale),
      Frag("S1", T_you_know, 0, 10, ConfScale),
      Frag("S1", T_So, 11, 12, ConfScale),
      Frag("S1", T_hi, 12, 20, ConfScale) }

NextTalk ==
    \/ ProcessSegments
    \/ \E seg \in TalkFragments : ProcessSegment(seg)
    \/ ProcessReturn
    \/ \E d \in Advance : Tick(d)

\* C26 as stated: a fragment whose end lies more than the maximum duration
\* after the open utterance's start is not merged: the utterance is
\* finalized and the fragment opens a new one.
C26_Original ==
    [][( /\ FragmentStep
         /\ current_utterance /= None
         /\ Val(segment_end') - Val(current_utterance).start_time
               > max_utterance_duration )
          => /\ Val(current_utterance').start_time = Val(segment_start')
             /\ Val(current_utterance').text = Val(segment').text
             /\ utterances' = utterances \o
                   _finalize_current_utterance(current_utterance,
                                               last_activity_time, now)
      ]_vars

\* the words of a text without the fillers, as the stop list reads: the
\* one-word fillers and the two-word filler 'you know'
RECURSIVE WithoutFillers(_)
WithoutFillers(ws) ==
    IF ws = <<>> THEN <<>>
    ELSE IF /\ Len(ws) >= 2
            /\ Lower(ws[1]) = <<"y", "o", "u">>
            /\ Lower(ws[2]) = <<"k", "n", "o", "w">>
         THEN WithoutFillers(Tail(Tail(ws)))
    ELSE IF Lower(ws[1]) \in filler_words THEN WithoutFillers(Tail(ws))
    ELSE <<ws[1]>> \o WithoutFillers(Tail(ws))

\* a step that returns one more utterance
FinalizedStep == Len(utterances') = Len(utterances) + 1

\* C29 as stated: the text of a returned utterance is the words of the
\* open utterance's text joined by single spaces, without the fillers of
\* the stop list, 'you know' among them, whatever their case.
C29_Original ==
    [][FinalizedStep
          => utterances'[Len(utterances')].text
                = Join(WithoutFillers(Split(Val(current_utterance).text)))
      ]_vars

(***************************************************************************)
(* AsyncUtteranceSegmenter: process_segments_async and reset_async hand    *)
(* process_segments and reset to threads of the loop's default executor    *)
(* (SpecAsync).  The threads are interleaved here between two iterations   *)
(* of process_segments' loop only.                                         *)
(***************************************************************************)
\* reset, run by reset_async in an executor thread while the thread of a
\* process_segments_async call is between two fragments
reset_async ==
    /\ seg_pc = "loop"
    /\ pending_segments' = <<>>
    /\ current_utterance' = None
    /\ last_activity_time' = None
    /\ UNCHANGED <<now, seg_pc, segment, segment_start, segment_end,
                   utterances, fed>>
    /\ UNCHANGED <<cacheVars, hubVars, profVars, orchVars>>

NextAsync ==
    \/ ProcessSegments
    \/ \E seg \in TalkFragments : ProcessSegment(seg)
    \/ ProcessReturn
    \/ reset
    \/ reset_async
    \/ \E d \in Advance : Tick(d)

\* C23 as stated: while process_segments is between two fragments of one
\* batch, nothing else changes the open utterance or the last activity
\* time.
C23_Original ==
    [][(seg_pc = "loop" /\ seg_pc' = "loop" /\ fed' = fed)
          => UNCHANGED <<current_utterance, last_activity_time>>
      ]_vars

(***************************************************************************)
(* SentimentCache                                                          *)
(***************************************************************************)
\* Bound of the cache's configuration: max_size is drawn from 0..MaxCacheSize
MaxCacheSize == 2

CacheSpeakers == { <<"a">>, <<"a", ":", "b">> }
CacheTexts == { <<"c">>, <<"b", ":", "c">>, <<"d">> }
Scores == { "v1", "v2" }

\* f"{speaker}:{text}"
CacheKey(speaker, text) == speaker \o <<":">> \o text

Keys(c) == {c[i].key : i \in 1..Len(c)}

\* dict.get(key)
DictGet(c, key) ==
    IF key \in Keys(c)
    THEN Some((CHOOSE i \in 1..Len(c) : c[i].key = key))
    ELSE None

\* self.cache[key] = scores: a present key keeps its place
DictStore(c, key, scores) ==
    IF key \in Keys(c)
    THEN [i \in 1..Len(c) |->
            IF c[i].key = key THEN [key |-> key, value |-> scores] ELSE c[i]]
    ELSE Append(c, [key |-> key, value |-> scores])

\* SentimentCache.get: the scores, or None
CacheGetResult(c, text, speaker) ==
    LET hit == DictGet(c, CacheKey(speaker, text))
    IN  IF hit = None THEN None ELSE Some(c[Val(hit)].value)

\* mutant: a full cache is not made room in
CacheSetNoEviction(c, size, text, speaker, scores) ==
    DictStore(c, CacheKey(speaker, text), scores)

\* mutant: a full cache loses its newest entry
CacheSetEvictNewest(c, size, text, speaker, scores) ==
    LET kept == IF Len(c) >= size THEN SubSeq(c, 1, Len(c) - 1) ELSE c
    IN  DictStore(kept, CacheKey(speaker, text), scores)

\* SentimentCache.set: the dict afterwards
CacheSetResult(c, size, text, speaker, scores) ==
    LET kept == IF Len(c) >= size THEN Tail(c) ELSE c
    IN  DictStore(kept, CacheKey(speaker, text), scores)

\* SentimentCache(max_size) for each max_size in sizes
InitCache(sizes) ==
    /\ cache = <<>>
    /\ max_size \in sizes
    /\ cache_call = [op |-> "init"]
    /\ mock_calls = <<>>

CacheGet(text, speaker) ==
    /\ cache_call' = [op |-> "get", text |-> text, speaker |-> speaker,
                      result |-> CacheGetResult(cache, text, speaker)]
    /\ UNCHANGED <<cache, max_size, mock_calls>>
    /\ UNCHANGED <<segVars, hubVars, profVars, orchVars>>

\* cache_call.oldest_key is set's local oldest_key: the key it deleted
CacheSet(text, speaker, scores) ==
    /\ IF Len(cache) >= max_size /\ cache = <<>>
       THEN \* next(iter(self.cache)) on an empty dict
            /\ cache_call' = [op |-> "set", text |-> text,
                              speaker |-> speaker, scores |-> scores,
                              oldest_key |-> None,
                              result |-> "StopIteration"]
            /\ UNCHANGED cache
       ELSE /\ cache' = CacheSetResult(cache, max_size, text, speaker, scores)
            /\ cache_call' = [op |-> "set", text |-> text,
                              speaker |-> speaker, scores |-> scores,
                              oldest_key |-> IF Len(cache) >= max_size
                                             THEN Some(cache[1].key)
                                             ELSE None,
                              result |-> "ok"]
    /\ UNCHANGED <<max_size, mock_calls>>
    /\ UNCHANGED <<segVars, hubVars, profVars, orchVars>>

CacheClear ==
    /\ cache' = <<>>
    /\ cache_call' = [op |-> "clear"]
    /\ UNCHANGED <<max_size, mock_calls>>
    /\ UNCHANGED <<segVars, hubVars, profVars, orchVars>>

size == Len(cache)

NextCache ==
    \/ \E text \in CacheTexts, speaker \in CacheSpeakers :
         CacheGet(text, speaker)
    \/ \E text \in CacheTexts, speaker \in CacheSpeakers, scores \in Scores :
         CacheSet(text, speaker, scores)
    \/ CacheClear

(***************************************************************************)
(* Properties of the cache (checked under SpecCache)                       *)
(***************************************************************************)
\* C9: after every get, set and clear, for every configured max_size,
\* size() is at most max_size.
C9_Bounded == size <= max_size

\* a set on a cache of the largest configured size that was full
C9_Witness ==
    /\ max_size = MaxCacheSize
    /\ size = max_size
    /\ cache_call.op = "set"
    /\ cache_call.result = "ok"
    /\ cache_call.oldest_key /= None

\* C10: a set that inserts a new key into a full cache evicts exactly the
\* entry inserted earliest among those present and puts the new entry last;
\* a get leaves the dict, and so the eviction order, as it is.
C10_Fifo ==
    [][/\ ( /\ cache_call'.op = "set"
            /\ cache_call'.result = "ok"
            /\ size = max_size
            /\ CacheKey(cache_call'.speaker, cache_call'.text)
                  \notin Keys(cache) )
          => /\ cache' = Append(Tail(cache),
                            [key |-> CacheKey(cache_call'.speaker,
                                              cache_call'.text),
                             value |-> cache_call'.scores])
             /\ cache_call'.oldest_key = Some(cache[1].key)
       /\ cache_call'.op = "get" => cache' = cache
      ]_vars

\* Scenario D: capacity 2, after A, B, C were inserted: A was evicted and
\* misses, B and C hit
C10_Witness ==
    LET A == <<"c">>
        B == <<"d">>
        C == <<"b", ":", "c">>
    IN  /\ max_size = 2
        /\ cache_call.op = "set"
        /\ cache_call.text = C
        /\ cache_call.speaker = <<"a">>
        /\ cache_call.oldest_key = Some(CacheKey(<<"a">>, A))
        /\ CacheGetResult(cache, A, <<"a">>) = None
        /\ CacheGetResult(cache, B, <<"a">>) /= None
        /\ CacheGetResult(cache, C, <<"a">>) /= None

\* C24 as stated: get(text, speaker) goes from a miss to a hit only by a
\* set with that same speaker and that same text.
C24_Original ==
    [][\A speaker \in CacheSpeakers, text \in CacheTexts :
          ( /\ CacheGetResult(cache, text, speaker) = None
            /\ CacheGetResult(cache', text, speaker) /= None )
             => /\ cache_call'.op = "set"
                /\ cache_call'.speaker = speaker
                /\ cache_call'.text = text
      ]_vars

\* C37 as stated: a set for a key that is present replaces that key's
\* value only: size() and every other entry stay as they are, also in a
\* full cache.
C37_Original ==
    [][( /\ cache_call'.op = "set"
         /\ CacheKey(cache_call'.speaker, cache_call'.text) \in Keys(cache) )
          => /\ Len(cache') = Len(cache)
             /\ \A i \in 1..Len(cache) :
                   cache[i].key /= CacheKey(cache_call'.speaker,
                                            cache_call'.text)
                      => \E j \in 1..Len(cache') : cache'[j] = cache[i]
      ]_vars

(***************************************************************************)
(* SentimentAnalyzer._mock_analysis                                        *)
(* Scores are counted in hundredths.                                       *)
(***************************************************************************)
\* Bound: the number of _mock_analysis calls
MaxMockCalls == 2

positive_words ==
    {
      <<"g", "o", "o", "d">>,
      <<"g", "r", "e", "a", "t">>,
      <<"h", "a", "p", "p", "y">>,
      <<"l", "o", "v", "e">>,
      <<"w", "o", "n", "d", "e", "r", "f", "u", "l">>,
      <<"a", "m", "a", "z", "i", "n", "g">>,
      <<"f", "a", "n", "t", "a", "s", "t", "i", "c">> }
negative_words ==
    {
      <<"b", "a", "d">>,
      <<"t", "e", "r", "r", "i", "b", "l", "e">>,
      <<"h", "a", "t", "e">>,
      <<"a", "w", "f", "u", "l">>,
      <<"h", "o", "r", "r", "i", "b", "l", "e">>,
      <<"a", "n", "g", "r", "y">>,
      <<"s", "a", "d">> }

\* the texts _mock_analysis is called with
MockTexts ==
    {
      <<"g", "o", "o", "d">>,
      <<"S", "o", " ", "s", "a", "d">>,
      <<"I", " ", "l", "o", "v", "e", " ", "g", "o", "o", "d">>,
      <<"h", "e", "l", "l", "o">>,
      <<"s", "a", "d", " ", "h", "a", "p", "p", "y">> }

\* `word in text_lower`
Contains(text, word) ==
    \E i \in 1..(Len(text) - Len(word) + 1) :
       SubSeq(text, i, i + Len(word) - 1) = word

\* min(a, b), max(a, b)
Min(a, b) == IF a < b THEN a ELSE b
Max(a, b) == IF a > b THEN a ELSE b

\* the labels _mock_analysis may raise above 0; the others stay 0.0
MockLabels == {"Happy", "Content", "Sad", "Frustrated"}

\* what random.uniform(-0.1, 0.1) may return
Variations == {-10, 0, 10}

\* the vector before the random variation
MockBase(text) ==
    LET text_lower == Lower(text)
        positive_count ==
            Cardinality({w \in positive_words : Contains(text_lower, w)})
        negative_count ==
            Cardinality({w \in negative_words : Contains(text_lower, w)})
        zero == [l \in MockLabels |-> 0]
    IN  IF positive_count > negative_count
        THEN [zero EXCEPT !.Happy = Min(80, positive_count * 20),
                          !.Content = Min(60, positive_count * 15)]
        ELSE IF negative_count > positive_count
        THEN [zero EXCEPT !.Sad = Min(80, negative_count * 20),
                          !.Frustrated = Min(60, negative_count * 15)]
        ELSE [zero EXCEPT !.Content = 50]

\* _mock_analysis, with variation[l] the value random.uniform returns for
\* label l: every score above 0 is varied and clamped to [0, 1]
_mock_analysis(text, variation) ==
    LET scores == MockBase(text)
    IN  [l \in MockLabels |->
            IF scores[l] > 0
            THEN Max(0, Min(100, scores[l] + variation[l]))
            ELSE scores[l]]

\* a call of _mock_analysis, as analyze_utterance makes it after a failure
\* of the API call, and _call_openrouter_api after a response it cannot
\* parse
MockAnalysis(text) ==
    /\ Len(mock_calls) < MaxMockCalls
    /\ \E variation \in [MockLabels -> Variations] :
          mock_calls' = Append(mock_calls,
                               [text |-> text,
                                scores |-> _mock_analysis(text, variation)])
    /\ UNCHANGED <<cache, max_size, cache_call>>
    /\ UNCHANGED <<segVars, hubVars, profVars, orchVars>>

NextMock == \E text \in MockTexts : MockAnalysis(text)

\* C31 as stated: two _mock_analysis calls on the same text return the
\* same vector.
C31_Original ==
    \A i, j \in 1..Len(mock_calls) :
       mock_calls[i].text = mock_calls[j].text
          => mock_calls[i].scores = mock_calls[j].scores

(***************************************************************************)
(* EventEmitter                                                            *)
(***************************************************************************)
\* Bounds of the hub's environment
MaxEvents == 3
\* the callbacks that may be registered: a plain function and a coroutine
\* function, each at most once
CallbackKinds == {"function", "coroutine"}
\* self.max_history (1000 in the source), scaled down
max_history == 2
\* handle_client replays event_history[-10:]
replay_count == 10

\* the connections that may be made to the websocket server, numbered in
\* the order in which they are accepted
Connections == {1, 2}

\* emit_event: self.event_history.append(event), then pop(0) over the bound
HistoryNoPop(h, e) == Append(h, e)

HistoryAfter(h, e) ==
    LET appended == Append(h, e)
    IN  IF Len(appended) > max_history THEN Tail(appended) ELSE appended

\* the size in bytes of what is written to the sink file; an event's JSON
\* (seven keys, indent=2) is always longer than 20 bytes
TokenSize(t) ==
    CASE t.kind = "header" -> 12
      [] t.kind = "sep" -> 2
      [] OTHER -> 100

\* what the sink file is made of: the header '{"events":[\n', the
\* separator ',\n', an event's JSON
Header == [kind |-> "header"]
Sep == [kind |-> "sep"]
EventJson(e) == [kind |-> "event", ev |-> e]
\* close_file writes '\n]}'
Closing == [kind |-> "closing"]

RECURSIVE FileSize(_)
FileSize(tokens) ==
    IF tokens = <<>> THEN 0
    ELSE TokenSize(Head(tokens)) + FileSize(Tail(tokens))

Msg(e, via) == [ev |-> e, via |-> via]

InitHub ==
    /\ websocket_clients = {}
    /\ event_history = <<>>
    /\ callbacks = <<>>
    /\ file_output = None
    /\ file = None
    /\ emit_pc = "idle"
    /\ event = None
    /\ it_used = 0
    /\ it_visited = {}
    /\ targets = {}
    /\ websocket = None
    /\ file_failed = FALSE
    /\ disconnected_clients = {}
    /\ cb_index = 0
    /\ cb_log = <<>>
    /\ conn = [w \in Connections |-> "new"]
    /\ handler_pc = [w \in Connections |-> "none"]
    /\ replay = [w \in Connections |-> <<>>]
    /\ received = [w \in Connections |-> <<>>]
    /\ emitted = 0

\* emit_event is not in the middle of a run between two awaits
EmitSuspended == emit_pc \in {"idle", "send", "file", "callback"}

\* add_callback, called as start() calls it: before the first event
add_callback(kind) ==
    /\ emit_pc = "idle"
    /\ emitted = 0
    /\ \A i \in 1..Len(callbacks) : callbacks[i] /= kind
    /\ callbacks' = Append(callbacks, kind)
    /\ UNCHANGED <<websocket_clients, event_history, file_output, file,
                   emit_pc, event, it_used, it_visited, targets, websocket,
                   file_failed, disconnected_clients, cb_index, cb_log, conn,
                   handler_pc, replay, received, emitted>>
    /\ UNCHANGED <<segVars, cacheVars, profVars, orchVars>>

\* start_file_output on a path that does not exist, called as start()
\* calls it, before the first event: the header is written
start_file_output ==
    /\ emit_pc = "idle"
    /\ emitted = 0
    /\ file_output = None
    /\ file_output' = Some("path")
    /\ file' = Some(<<Header>>)
    /\ UNCHANGED <<websocket_clients, event_history, callbacks, emit_pc,
                   event, it_used, it_visited, targets, websocket,
                   file_failed, disconnected_clients, cb_index, cb_log, conn,
                   handler_pc, replay, received, emitted>>
    /\ UNCHANGED <<segVars, cacheVars, profVars, orchVars>>

\* handle_client, from its start to its first await: the connection joins
\* the set, the history slice is taken, the first replay send is made
handle_client(w) ==
    /\ EmitSuspended
    /\ conn[w] = "new"
    /\ \A v \in Connections : v < w => conn[v] /= "new"
    /\ conn' = [conn EXCEPT ![w] = "open"]
    /\ websocket_clients' = websocket_clients \cup {w}
    /\ LET slice == Last(event_history, replay_count)
       IN  IF slice = <<>>
           THEN /\ handler_pc' = [handler_pc EXCEPT ![w] = "wait_closed"]
                /\ UNCHANGED <<replay, received>>
           ELSE /\ handler_pc' = [handler_pc EXCEPT ![w] = "replay"]
                /\ replay' = [replay EXCEPT ![w] = Tail(slice)]
                /\ received' = [received EXCEPT
                                  ![w] = Append(@, Msg(Head(slice), "replay"))]
    /\ UNCHANGED <<event_history, callbacks, file_output, file, emit_pc,
                   event, it_used, it_visited, targets, websocket,
                   file_failed, disconnected_clients, cb_index, cb_log,
                   emitted>>
    /\ UNCHANGED <<segVars, cacheVars, profVars, orchVars>>

\* handle_client resumes after a replay send: the next one, or wait_closed;
\* a send on a closed connection raises ConnectionClosed, and the finally
\* block discards the connection
handle_client_replay(w) ==
    /\ EmitSuspended
    /\ handler_pc[w] = "replay"
    /\ IF replay[w] = <<>>
       THEN /\ handler_pc' = [handler_pc EXCEPT ![w] = "wait_closed"]
            /\ UNCHANGED <<replay, received, websocket_clients>>
       ELSE IF conn[w] = "closed"
       THEN /\ handler_pc' = [handler_pc EXCEPT ![w] = "done"]
            /\ websocket_clients' = websocket_clients \ {w}
            /\ UNCHANGED <<replay, received>>
       ELSE /\ replay' = [replay EXCEPT ![w] = Tail(@)]
            /\ received' = [received EXCEPT
                              ![w] = Append(@, Msg(Head(replay[w]), "replay"))]
            /\ UNCHANGED <<handler_pc, websocket_clients>>
    /\ UNCHANGED <<event_history, callbacks, file_output, file, emit_pc,
                   event, it_used, it_visited, targets, websocket,
                   file_failed, disconnected_clients, cb_index, cb_log, conn,
                   emitted>>
    /\ UNCHANGED <<segVars, cacheVars, profVars, orchVars>>

\* handle_client resumes after wait_closed: finally, discard
handle_client_closed(w) ==
    /\ EmitSuspended
    /\ handler_pc[w] = "wait_closed"
    /\ conn[w] = "closed"
    /\ handler_pc' = [handler_pc EXCEPT ![w] = "done"]
    /\ websocket_clients' = websocket_clients \ {w}
    /\ UNCHANGED <<event_history, callbacks, file_output, file, emit_pc,
                   event, it_used, it_visited, targets, websocket,
                   file_failed, disconnected_clients, cb_index, cb_log, conn,
                   replay, received, emitted>>
    /\ UNCHANGED <<segVars, cacheVars, profVars, orchVars>>

\* the peer closes the connection, or the network drops it
Disconnect(w) ==
    /\ EmitSuspended
    /\ conn[w] = "open"
    /\ conn' = [conn EXCEPT ![w] = "closed"]
    /\ UNCHANGED <<websocket_clients, event_history, callbacks, file_output,
                   file, emit_pc, event, it_used, it_visited, targets,
                   websocket, file_failed, disconnected_clients, cb_index,
                   cb_log, handler_pc, replay, received, emitted>>
    /\ UNCHANGED <<segVars, cacheVars, profVars, orchVars>>

\* emit_event, from its start to the set iterator's creation
emit_event ==
    /\ emit_pc = "idle"
    /\ emitted < MaxEvents
    /\ emitted' = emitted + 1
    /\ event' = Some(emitted + 1)
    /\ event_history' = HistoryAfter(event_history, emitted + 1)
    /\ targets' = websocket_clients
    /\ it_used' = Cardinality(websocket_clients)
    /\ it_visited' = {}
    /\ disconnected_clients' = {}
    /\ websocket' = None
    /\ file_failed' = FALSE
    /\ cb_index' = 0
    /\ cb_log' = <<>>
    /\ emit_pc' = IF websocket_clients = {} THEN "write" ELSE "next"
    /\ UNCHANGED <<websocket_clients, callbacks, file_output, file, conn,
                   handler_pc, replay, received>>
    /\ UNCHANGED <<segVars, cacheVars, profVars, orchVars>>

\* _broadcast_to_websockets: the for statement takes the next subscriber
\* from the set iterator and sends to it.  The iterator raises RuntimeError
\* when the set's size is not the one it started with; with the size
\* unchanged it yields every subscriber that stayed in the set, and may or
\* may not yield one that was added meanwhile.
broadcast_next ==
    /\ emit_pc = "next"
    /\ IF Cardinality(websocket_clients) /= it_used
       THEN /\ emit_pc' = "raised"
            /\ it_visited' = {}
            /\ websocket' = None
            /\ disconnected_clients' = {}
            /\ UNCHANGED <<websocket_clients, received>>
       ELSE \/ \E w \in websocket_clients \ it_visited :
                 /\ it_visited' = it_visited \cup {w}
                 /\ websocket' = Some(w)
                 /\ IF conn[w] = "open"
                    THEN /\ received' = [received EXCEPT
                              ![w] = Append(@, Msg(Val(event), "live"))]
                         /\ emit_pc' = "send"
                         /\ UNCHANGED disconnected_clients
                    ELSE /\ disconnected_clients' =
                              disconnected_clients \cup {w}
                         /\ UNCHANGED <<received, emit_pc>>
                 /\ UNCHANGED websocket_clients
            \/ /\ (targets \cap websocket_clients) \subseteq it_visited
               /\ websocket_clients' = websocket_clients \ disconnected_clients
               /\ emit_pc' = "write"
               /\ it_visited' = {}
               /\ websocket' = None
               /\ disconnected_clients' = {}
               /\ UNCHANGED received
    /\ UNCHANGED <<event_history, callbacks, file_output, file, event,
                   it_used, targets, file_failed, cb_index, cb_log, conn,
                   handler_pc, replay, emitted>>
    /\ UNCHANGED <<segVars, cacheVars, profVars, orchVars>>

\* _broadcast_to_websockets resumes after a send
broadcast_sent ==
    /\ emit_pc = "send"
    /\ emit_pc' = "next"
    /\ UNCHANGED <<websocket_clients, event_history, callbacks, file_output,
                   file, event, it_used, it_visited, targets, websocket,
                   file_failed, disconnected_clients, cb_index, cb_log, conn,
                   handler_pc, replay, received, emitted>>
    /\ UNCHANGED <<segVars, cacheVars, profVars, orchVars>>

\* _write_to_file, up to aiofiles.open
write_to_file ==
    /\ emit_pc = "write"
    /\ emit_pc' = IF file_output = None THEN "callbacks" ELSE "file"
    /\ cb_index' = 1
    /\ UNCHANGED <<websocket_clients, event_history, callbacks, file_output,
                   file, event, it_used, it_visited, targets, websocket,
                   file_failed, disconnected_clients, cb_log, conn,
                   handler_pc, replay, received, emitted>>
    /\ UNCHANGED <<segVars, cacheVars, profVars, orchVars>>

\* _write_to_file resumes: the separator and the event are appended, or an
\* exception is caught and logged
file_written ==
    /\ emit_pc = "file"
    /\ emit_pc' = "callbacks"
    /\ \/ /\ file' = Some(Val(file)
                          \o (IF FileSize(Val(file)) > 20
                              THEN <<Sep>> ELSE <<>>)
                          \o <<EventJson(Val(event))>>)
          /\ UNCHANGED file_failed
       \/ /\ file_failed' = TRUE
          /\ UNCHANGED file
    /\ UNCHANGED <<websocket_clients, event_history, callbacks, file_output,
                   event, it_used, it_visited, targets, websocket,
                   disconnected_clients, cb_index, cb_log, conn, handler_pc,
                   replay, received, emitted>>
    /\ UNCHANGED <<segVars, cacheVars, profVars, orchVars>>

\* _call_callbacks: the next callback is called; a plain function returns
\* or raises at once, a coroutine function is awaited
call_callbacks ==
    /\ emit_pc = "callbacks"
    /\ IF cb_index > Len(callbacks)
       THEN /\ emit_pc' = "done"
            /\ cb_index' = 0
            /\ UNCHANGED cb_log
       ELSE IF callbacks[cb_index] = "coroutine"
       THEN /\ emit_pc' = "callback"
            /\ UNCHANGED <<cb_index, cb_log>>
       ELSE /\ \E outcome \in {"ok", "raised"} :
                 cb_log' = Append(cb_log, outcome)
            /\ cb_index' = cb_index + 1
            /\ UNCHANGED emit_pc
    /\ UNCHANGED <<websocket_clients, event_history, callbacks, file_output,
                   file, event, it_used, it_visited, targets, websocket,
                   file_failed, disconnected_clients, conn, handler_pc,
                   replay, received, emitted>>
    /\ UNCHANGED <<segVars, cacheVars, profVars, orchVars>>

\* _call_callbacks resumes after an awaited callback
callback_returned ==
    /\ emit_pc = "callback"
    /\ emit_pc' = "callbacks"
    /\ \E outcome \in {"ok", "raised"} : cb_log' = Append(cb_log, outcome)
    /\ cb_index' = cb_index + 1
    /\ UNCHANGED <<websocket_clients, event_history, callbacks, file_output,
                   file, event, it_used, it_visited, targets, websocket,
                   file_failed, disconnected_clients, conn, handler_pc,
                   replay, received, emitted>>
    /\ UNCHANGED <<segVars, cacheVars, profVars, orchVars>>

\* emit_event is over: its caller goes on, with the result or the exception
emit_return ==
    /\ emit_pc \in {"done", "raised"}
    /\ emit_pc' = "idle"
    /\ event' = None
    /\ it_used' = 0
    /\ targets' = {}
    /\ file_failed' = FALSE
    /\ cb_index' = 0
    /\ cb_log' = <<>>
    /\ UNCHANGED <<websocket_clients, event_history, callbacks, file_output,
                   file, it_visited, websocket, disconnected_clients, conn,
                   handler_pc, replay, received, emitted>>
    /\ UNCHANGED <<segVars, cacheVars, profVars, orchVars>>

\* Bound: the number of close_file calls
MaxCloses == 1

\* how many closing brackets the file holds
Closings(f) == Cardinality({i \in 1..Len(f) : f[i] = Closing})

\* what close_file leaves in the file: '\n]}' is appended when a file
\* output is configured and the file exists
close_file_result(fo, f) ==
    IF fo /= None /\ f /= None THEN Some(Val(f) \o <<Closing>>) ELSE f

\* close_file, called while no emit_event is under way
close_file ==
    /\ emit_pc = "idle"
    /\ file_output /= None
    /\ Closings(Val(file)) < MaxCloses
    /\ file' = close_file_result(file_output, file)
    /\ UNCHANGED <<websocket_clients, event_history, callbacks, file_output,
                   emit_pc, event, it_used, it_visited, targets, websocket,
                   file_failed, disconnected_clients, cb_index, cb_log, conn,
                   handler_pc, replay, received, emitted>>
    /\ UNCHANGED <<segVars, cacheVars, profVars, orchVars>>

\* _write_to_file resumes and its write succeeds
file_written_ok == file_written /\ ~file_failed'

NextHub ==
    \/ \E kind \in CallbackKinds : add_callback(kind)
    \/ start_file_output
    \/ \E w \in Connections : handle_client(w)
    \/ \E w \in Connections : handle_client_replay(w)
    \/ \E w \in Connections : handle_client_closed(w)
    \/ \E w \in Connections : Disconnect(w)
    \/ emit_event
    \/ broadcast_next
    \/ broadcast_sent
    \/ write_to_file
    \/ file_written
    \/ call_callbacks
    \/ callback_returned
    \/ emit_return

\* the hub with a file sink whose writes succeed and with no callbacks
NextSink ==
    \/ start_file_output
    \/ \E w \in Connections : handle_client(w)
    \/ \E w \in Connections : handle_client_replay(w)
    \/ \E w \in Connections : handle_client_closed(w)
    \/ \E w \in Connections : Disconnect(w)
    \/ emit_event
    \/ broadcast_next
    \/ broadcast_sent
    \/ write_to_file
    \/ file_written_ok
    \/ call_callbacks
    \/ emit_return
    \/ close_file

(***************************************************************************)
(* The hub's properties                                                    *)
(***************************************************************************)
\* how many times the current event was sent live to subscriber w
LiveCount(w) ==
    Cardinality({i \in 1..Len(received[w]) :
                    received[w][i] = Msg(Val(event), "live")})

\* how many times the current event stands in the sink file
FileCount ==
    Cardinality({i \in 1..Len(Val(file)) :
                    Val(file)[i] = EventJson(Val(event))})

\* the subscribers of the current emit_event call that are still subscribed
\* and connected
Healthy == {w \in targets \cap websocket_clients : conn[w] = "open"}

\* the sinks other than subscribers have had the current event: the file
\* once unless its write failed, every callback one call
SinksServed ==
    /\ (file_output /= None /\ ~file_failed) => FileCount = 1
    /\ Len(cb_log) = Len(callbacks)

\* C5: emit_event never raises, and when it is over every healthy
\* subscriber, the file sink and every callback have had the event exactly
\* once, whichever other destinations failed.
C5_Original ==
    /\ emit_pc /= "raised"
    /\ emit_pc = "done" =>
          /\ \A w \in Healthy : LiveCount(w) = 1
          /\ SinksServed

\* C6: when the subscriber set was changed by handle_client while
\* emit_event was suspended in a send, the for statement of the broadcast
\* does not raise, and emit_event goes on to serve the remaining
\* subscribers, the file sink and the callbacks.
C6_Original ==
    [][(emit_pc = "next" /\ websocket_clients /= targets)
          => /\ emit_pc' /= "raised"
             /\ emit_pc' = "write" => \A w \in Healthy' : LiveCount(w)' = 1]_vars

\* C7: what a subscriber receives is the replay, in emission order, and
\* then the live events: no live event arrives before a replayed one.
C7_Original ==
    \A w \in Connections :
        \A i, j \in 1..Len(received[w]) :
            i < j =>
               /\ ~(received[w][i].via = "live" /\ received[w][j].via = "replay")
               /\ (received[w][i].via = "replay" /\ received[w][j].via = "replay")
                     => received[w][i].ev < received[w][j].ev

\* C8: event_history holds at most max_history events, and they are the
\* most recently emitted ones in emission order.
C8_History ==
    /\ Len(event_history) = Min(emitted, max_history)
    /\ \A i \in 1..Len(event_history) :
          event_history[i] = emitted - Len(event_history) + i

\* an emit_event call that went over the bound is over
C8_Witness ==
    /\ emitted > max_history
    /\ emit_pc = "done"
    /\ Len(event_history) = max_history

\* the live events subscriber w received, in the order of their arrival
LiveEvents(w) ==
    LET RECURSIVE Pick(_)
        Pick(ms) ==
            IF ms = <<>> THEN <<>>
            ELSE IF Head(ms).via = "live"
                 THEN <<Head(ms).ev>> \o Pick(Tail(ms))
                 ELSE Pick(Tail(ms))
    IN  Pick(received[w])

\* C16: a subscriber that is connected during the emits of e1 and of a
\* later e2 receives e1 before e2.  A connection never comes back, so a
\* subscriber that has received two live events was connected during every
\* emit between them: its live events are consecutive emissions, in order.
C16_Original ==
    \A w \in Connections :
        \A i \in 1..(Len(LiveEvents(w)) - 1) :
            LiveEvents(w)[i + 1] = LiveEvents(w)[i] + 1

\* event.speaker: the emitted events come from two speakers in turn
EventSpeaker(e) == IF e % 2 = 1 THEN "S1" ELSE "S2"

\* get_event_stats
get_event_stats ==
    IF event_history = <<>>
    THEN [total_events |-> 0]
    ELSE LET speakers ==
                 {EventSpeaker(event_history[i]) : i \in 1..Len(event_history)}
         IN  [total_events |-> Len(event_history),
              unique_speakers |-> Cardinality(speakers),
              speaker_counts |->
                  [sp \in speakers |->
                      Cardinality({i \in 1..Len(event_history) :
                                      EventSpeaker(event_history[i]) = sp})],
              websocket_clients |-> Cardinality(websocket_clients),
              file_output |-> file_output]

\* the sum of the values of a function to the naturals
RECURSIVE SumOf(_)
SumOf(f) ==
    IF DOMAIN f = {} THEN 0
    ELSE LET k == CHOOSE k \in DOMAIN f : TRUE
         IN  f[k] + SumOf([j \in DOMAIN f \ {k} |-> f[j]])

\* a number get_event_stats reports; a key it leaves out reads as 0
Reported(stats, key) == IF key \in DOMAIN stats THEN stats[key] ELSE 0

\* C19: in every state of the hub get_event_stats reports the number of
\* events emitted so far, per-speaker counts that sum to it, and the number
\* of subscribers.
C19_Original ==
    LET stats == get_event_stats
    IN  /\ Reported(stats, "total_events") = emitted
        /\ "speaker_counts" \in DOMAIN stats
              => SumOf(stats.speaker_counts) = emitted
        /\ Reported(stats, "websocket_clients")
              = Cardinality(websocket_clients)

\* the sink file after k events and one close_file: the header, the events
\* in emission order with a separator before each but the first, the
\* closing bracket
RECURSIVE FileBody(_)
FileBody(k) ==
    IF k = 0 THEN <<>>
    ELSE IF k = 1 THEN <<EventJson(1)>>
    ELSE FileBody(k - 1) \o <<Sep, EventJson(k)>>

ExpectedFile(k) == <<Header>> \o FileBody(k) \o <<Closing>>

\* C17: once the emit_event calls made so far were followed by one
\* close_file, the sink file is the header, the events of these calls in
\* emission order, separated, and the closing bracket; before the close it
\* is not that document.
C17_Original ==
    (file /= None /\ emit_pc = "idle") =>
        LET f == Val(file)
        IN  /\ Closings(f) = 0 => f /= ExpectedFile(emitted)
            /\ (Closings(f) = 1 /\ f[Len(f)] = Closing)
                  => f = ExpectedFile(emitted)

\* C36 as stated: once close_file has written the closing bracket, nothing
\* is appended to the sink file any more.
C36_Original ==
    [][(file /= None /\ Closings(Val(file)) > 0) => file' = file]_vars

(***************************************************************************)
(* PerformanceProfiler                                                     *)
(***************************************************************************)
\* Bounds: the number of start_timing calls, the last clock reading
MaxTimings == 3
MaxProfTime == 2

\* the component and operation names the callers pass
Components == {"events", "sentiment"}
Operations == {"emit_event"}

\* f"{component}:{operation}:{time.time()}"
TimingKey(component, operation, t) ==
    [component |-> component, operation |-> operation, time |-> t]

\* self.start_times[key] = value
DictSet(d, key, value) ==
    [k \in DOMAIN d \cup {key} |-> IF k = key THEN value ELSE d[k]]

\* self.start_times.pop(key)
DictPop(d, key) == [k \in DOMAIN d \ {key} |-> d[k]]

\* the sequence s without its i-th element
Remove(s, i) == SubSeq(s, 1, i - 1) \o SubSeq(s, i + 1, Len(s))

InitProf ==
    /\ prof_now = 0
    /\ start_times = <<>>
    /\ metrics = <<>>
    /\ outstanding = <<>>
    /\ prof_call = [op |-> "init"]

\* time passes
ProfTick ==
    /\ prof_now < MaxProfTime
    /\ prof_now' = prof_now + 1
    /\ UNCHANGED <<start_times, metrics, outstanding, prof_call>>
    /\ UNCHANGED <<segVars, cacheVars, hubVars, orchVars>>

\* start_timing: the key is made of the names and the clock reading
start_timing(component, operation) ==
    /\ Len(outstanding) + Len(metrics) < MaxTimings
    /\ LET key == TimingKey(component, operation, prof_now)
       IN  /\ start_times' = DictSet(start_times, key, prof_now)
           /\ outstanding' = Append(outstanding, key)
           /\ prof_call' = [op |-> "start_timing", key |-> key]
    /\ UNCHANGED <<prof_now, metrics>>
    /\ UNCHANGED <<segVars, cacheVars, hubVars, orchVars>>

\* dict.update: the entries of b are written over those of a
DictUpdate(a, b) ==
    [k \in DOMAIN a \cup DOMAIN b |-> IF k \in DOMAIN b THEN b[k] ELSE a[k]]

\* end_timing with the i-th outstanding key and the metadata given (a dict
\* or None)
end_timing(i, metadata) ==
    /\ i \in 1..Len(outstanding)
    /\ LET key == outstanding[i]
       IN  IF key \notin DOMAIN start_times
           THEN /\ prof_call' = [op |-> "end_timing", key |-> key,
                                 metadata |-> metadata,
                                 result |-> "ValueError"]
                /\ UNCHANGED <<start_times, metrics>>
           ELSE /\ start_times' = DictPop(start_times, key)
                /\ metrics' = Append(metrics,
                       [component_name |-> key.component,
                        operation_name |-> key.operation,
                        duration_ms |-> prof_now - start_times[key],
                        timestamp |-> prof_now,
                        metadata |-> metadata])
                /\ prof_call' = [op |-> "end_timing", key |-> key,
                                 metadata |-> metadata,
                                 result |-> "ok"]
    /\ outstanding' = Remove(outstanding, i)
    /\ UNCHANGED prof_now
    /\ UNCHANGED <<segVars, cacheVars, hubVars, orchVars>>

\* the metadata a ComponentProfiler is built with: none, or a dict
UserMetadata == {None, Some([text_length |-> 5])}

\* the exception that leaves a profiled block, if one does
Exceptions == {None, Some([message |-> "boom", type |-> "RuntimeError"])}

\* the metadata __exit__ passes to end_timing
ExitMetadata(exc, metadata) ==
    IF exc /= None
    THEN LET error_metadata == [error |-> Val(exc).message,
                                error_type |-> Val(exc).type]
         IN  IF metadata /= None
             THEN Some(DictUpdate(error_metadata, Val(metadata)))
             ELSE Some(error_metadata)
    ELSE metadata

\* ComponentProfiler.__exit__ of the profiled block that holds the i-th
\* outstanding key: end_timing is called, and what it raises, or else the
\* exception exc of the block, goes on to the caller
ComponentProfilerExit(i, exc, metadata) ==
    end_timing(i, ExitMetadata(exc, metadata))

\* profiled blocks: __enter__ is start_timing, __exit__ ends the timing
NextExit ==
    \/ ProfTick
    \/ \E component \in Components, operation \in Operations :
         start_timing(component, operation)
    \/ \E i \in 1..MaxTimings, exc \in Exceptions, metadata \in UserMetadata :
         ComponentProfilerExit(i, exc, metadata)

\* the components whose samples the statistics are taken of: two of them
\* belong to one dashboard category
StatComponents == {"events", "sentiment", "sentiment_analysis"}

\* a / b of two numbers, kept as a fraction
Frac(a, b) == [num |-> a, den |-> b]
FracAdd(x, y) == Frac(x.num * y.den + y.num * x.den, x.den * y.den)

\* sum, min and max of a non-empty list of numbers
RECURSIVE SeqSum(_)
SeqSum(q) == IF q = <<>> THEN 0 ELSE Head(q) + SeqSum(Tail(q))
SeqMin(q) == CHOOSE x \in {q[i] : i \in 1..Len(q)} :
                \A i \in 1..Len(q) : x <= q[i]
SeqMax(q) == CHOOSE x \in {q[i] : i \in 1..Len(q)} :
                \A i \in 1..Len(q) : x >= q[i]

\* what a call comes to: the value returned, or the exception raised
Returned(value) == [raised |-> "none", value |-> Some(value)]
Raised(exception) == [raised |-> exception, value |-> None]

\* get_component_stats: 1000 / (sum(durations) / len(durations)) divides
\* by 0.0 when every duration is 0
get_component_stats(ms, component_name) ==
    LET component_metrics ==
            SelectSeq(ms, LAMBDA m : m.component_name = component_name)
        durations == [i \in 1..Len(component_metrics) |->
                         component_metrics[i].duration_ms]
        timestamps == [i \in 1..Len(component_metrics) |->
                          component_metrics[i].timestamp]
    IN  IF component_metrics = <<>>
        THEN Returned([component |-> component_name,
                       total_operations |-> 0,
                       avg_duration_ms |-> Frac(0, 1),
                       min_duration_ms |-> 0,
                       max_duration_ms |-> 0,
                       total_duration_ms |-> 0,
                       operations_per_second |-> Frac(0, 1),
                       last_operation_time |-> 0])
        ELSE IF SeqSum(durations) = 0
        THEN Raised("ZeroDivisionError")
        ELSE Returned([component |-> component_name,
                       total_operations |-> Len(component_metrics),
                       avg_duration_ms |->
                           Frac(SeqSum(durations), Len(durations)),
                       min_duration_ms |-> SeqMin(durations),
                       max_duration_ms |-> SeqMax(durations),
                       total_duration_ms |-> SeqSum(durations),
                       operations_per_second |->
                           Frac(1000 * Len(durations), SeqSum(durations)),
                       last_operation_time |-> SeqMax(timestamps)])

\* get_all_stats: the statistics of every component that has a sample
get_all_stats(ms) ==
    LET components == {ms[i].component_name : i \in 1..Len(ms)}
    IN  IF \E comp \in components :
              get_component_stats(ms, comp).raised /= "none"
        THEN Raised("ZeroDivisionError")
        ELSE Returned([comp \in components |->
                          Val(get_component_stats(ms, comp).value)])

\* component_mapping.get(component_name, component_name)
component_mapping(component_name) ==
    CASE component_name = "audio_capture" -> "audio"
      [] component_name = "transcription" -> "transcription"
      [] component_name = "sentiment" -> "sentiment"
      [] component_name = "sentiment_analysis" -> "sentiment"
      [] component_name = "events" -> "events"
      [] component_name = "event_emission" -> "events"
      [] component_name = "utterance_segmentation" -> "transcription"
      [] OTHER -> component_name

\* the sum of a set of fractions
RECURSIVE FracSum(_)
FracSum(f) ==
    IF DOMAIN f = {} THEN Frac(0, 1)
    ELSE LET k == CHOOSE k \in DOMAIN f : TRUE
         IN  FracAdd(f[k], FracSum([j \in DOMAIN f \ {k} |-> f[j]]))

\* get_metrics: the totals, and the statistics grouped by dashboard
\* category (the timestamp of the call is left out)
get_metrics(ms) ==
    LET all == get_all_stats(ms)
    IN  IF all.raised /= "none" THEN Raised(all.raised)
        ELSE LET stats == Val(all.value)
                 names == DOMAIN stats
                 total_events ==
                     SumOf([c \in names |-> stats[c].total_operations])
                 latencies == FracSum([c \in names |->
                                          stats[c].avg_duration_ms])
                 avg_latency ==
                     IF names /= {}
                     THEN Frac(latencies.num,
                               latencies.den * Cardinality(names))
                     ELSE Frac(0, 1)
                 categories == {component_mapping(c) : c \in names}
                 members(d) == {c \in names : component_mapping(c) = d}
                 ops(d) == SumOf([c \in members(d) |->
                                     stats[c].total_operations])
                 total(d) == SumOf([c \in members(d) |->
                                       stats[c].total_duration_ms])
                 grouped_stats ==
                     [d \in categories |->
                        [total_operations |-> ops(d),
                         total_duration_ms |-> total(d),
                         average_time |-> IF ops(d) > 0
                                          THEN Frac(total(d), ops(d))
                                          ELSE Frac(0, 1),
                         min_duration_ms |->
                            CHOOSE x \in {stats[c].min_duration_ms :
                                             c \in members(d)} :
                               \A c \in members(d) :
                                  x <= stats[c].min_duration_ms,
                         max_duration_ms |->
                            CHOOSE x \in {stats[c].max_duration_ms :
                                             c \in members(d)} :
                               \A c \in members(d) :
                                  x >= stats[c].max_duration_ms]]
             IN  Returned([total_events |-> total_events,
                           average_latency |-> avg_latency,
                           components |-> grouped_stats])

\* the calls of the three read operations
GetComponentStats(component_name) ==
    /\ prof_call' = [op |-> "get_component_stats",
                     component |-> component_name,
                     result |-> get_component_stats(metrics, component_name)]
    /\ UNCHANGED <<prof_now, start_times, metrics, outstanding>>
    /\ UNCHANGED <<segVars, cacheVars, hubVars, orchVars>>

GetAllStats ==
    /\ prof_call' = [op |-> "get_all_stats",
                     result |-> get_all_stats(metrics)]
    /\ UNCHANGED <<prof_now, start_times, metrics, outstanding>>
    /\ UNCHANGED <<segVars, cacheVars, hubVars, orchVars>>

GetMetrics ==
    /\ prof_call' = [op |-> "get_metrics", result |-> get_metrics(metrics)]
    /\ UNCHANGED <<prof_now, start_times, metrics, outstanding>>
    /\ UNCHANGED <<segVars, cacheVars, hubVars, orchVars>>

\* samples are recorded and the statistics are read
NextStats ==
    \/ ProfTick
    \/ \E component \in StatComponents, operation \in Operations :
         start_timing(component, operation)
    \/ \E i \in 1..MaxTimings : end_timing(i, None)
    \/ \E component \in StatComponents : GetComponentStats(component)
    \/ GetAllStats
    \/ GetMetrics

NextProf ==
    \/ ProfTick
    \/ \E component \in Components, operation \in Operations :
         start_timing(component, operation)
    \/ \E i \in 1..MaxTimings : end_timing(i, None)

(***************************************************************************)
(* Properties of the profiler (checked under SpecProf)                     *)
(***************************************************************************)
\* C18: the tokens of the start_timing calls that are outstanding at the
\* same time are distinct, and every end_timing finds its start entry.
C18_Original ==
    /\ \A i, j \in 1..Len(outstanding) :
          i /= j => outstanding[i] /= outstanding[j]
    /\ prof_call.op = "end_timing" => prof_call.result = "ok"

\* a profiled block is left with an exception
RaisingExit ==
    /\ Len(outstanding') < Len(outstanding)
    /\ prof_call'.op = "end_timing"
    /\ prof_call'.metadata /= None
    /\ "error" \in DOMAIN Val(prof_call'.metadata)

\* C32 as stated: when a profiled block is left with an exception, one
\* sample is recorded for it, with the error message and the error type in
\* its metadata; that exception, and no other, goes on to the caller; and
\* the operation has no entry left in start_times.
C32_Original ==
    [][RaisingExit
          => /\ Len(metrics') = Len(metrics) + 1
             /\ LET m == metrics'[Len(metrics')]
                IN  /\ m.component_name = prof_call'.key.component
                    /\ m.operation_name = prof_call'.key.operation
                    /\ m.metadata /= None
                    /\ {"error", "error_type"} \subseteq DOMAIN Val(m.metadata)
             /\ prof_call'.result = "ok"
             /\ prof_call'.key \notin DOMAIN start_times'
      ]_vars

\* the read operations
Reads == {"get_component_stats", "get_all_stats", "get_metrics"}

\* C40 as stated: whatever samples were recorded, also samples of 0 ms
\* only, the three read operations return and do not raise.
C40_Original ==
    prof_call.op \in Reads => prof_call.result.raised = "none"

\* the samples recorded for a component
SamplesOf(component_name) ==
    {i \in 1..Len(metrics) : metrics[i].component_name = component_name}

\* C33 as stated: get_component_stats counts the samples of its component;
\* the operation counts of get_metrics' categories add up to the number of
\* samples; a category's average_time is its total duration divided by its
\* operation count.
C33_Original ==
    /\ prof_call.op = "get_component_stats"
          => /\ prof_call.result.raised = "none"
             /\ Val(prof_call.result.value).total_operations
                   = Cardinality(SamplesOf(prof_call.component))
    /\ prof_call.op = "get_metrics"
          => /\ prof_call.result.raised = "none"
             /\ LET grouped == Val(prof_call.result.value).components
                IN  /\ SumOf([d \in DOMAIN grouped |->
                                 grouped[d].total_operations])
                          = Len(metrics)
                    /\ \A d \in DOMAIN grouped :
                          grouped[d].average_time.num
                                * grouped[d].total_operations
                             = grouped[d].total_duration_ms
                                  * grouped[d].average_time.den

(***************************************************************************)
(* AsyncAudioCapture: start_recording, the recording threads, and          *)
(* stop_recording with its bounded join                                    *)
(***************************************************************************)
\* Bounds: the threads start_recording may create, the chunks put
MaxStarts == 2
MaxPuts == 3

\* the threads, numbered in the order of their creation
RecThreads == 1..MaxStarts

Started == {t \in RecThreads : rec_pc[t] /= "none"}

InitCap ==
    /\ rec_pc = [t \in RecThreads |-> "none"]
    /\ recording_thread = None
    /\ put_log = <<>>
    /\ cap_pc = "idle"

\* the variables of the orchestrator the capture's steps leave alone
orchLocals == <<is_running, processing_task, loop_pc, transcription,
                utt_index, handled, thread_alive, stop_pc, runVars>>

\* start_recording: nothing if the flag is set; else the flag is set and a
\* new thread is started on _record_audio
start_recording ==
    /\ cap_pc = "idle"
    /\ ~is_recording
    /\ \E t \in RecThreads :
          /\ t = Cardinality(Started) + 1
          /\ rec_pc' = [rec_pc EXCEPT ![t] = "open"]
          /\ recording_thread' = Some(t)
    /\ is_recording' = TRUE
    /\ UNCHANGED <<put_log, cap_pc>>
    /\ UNCHANGED <<orchLocals, bufVars>>
    /\ UNCHANGED <<segVars, cacheVars, hubVars, profVars>>

\* _record_audio has opened and started its stream
_record_audio_open(t) ==
    /\ rec_pc[t] = "open"
    /\ rec_pc' = [rec_pc EXCEPT ![t] = "check"]
    /\ UNCHANGED <<recording_thread, put_log, cap_pc, is_recording>>
    /\ UNCHANGED <<orchLocals, bufVars>>
    /\ UNCHANGED <<segVars, cacheVars, hubVars, profVars>>

\* `while self._is_recording:` the flag is the object's, the same for
\* every thread
_record_audio_check(t) ==
    /\ rec_pc[t] = "check"
    /\ rec_pc' = [rec_pc EXCEPT ![t] = IF is_recording THEN "read"
                                       ELSE "exited"]
    /\ UNCHANGED <<recording_thread, put_log, cap_pc, is_recording>>
    /\ UNCHANGED <<orchLocals, bufVars>>
    /\ UNCHANGED <<segVars, cacheVars, hubVars, profVars>>

\* self._stream.read returns a chunk
_record_audio_read(t) ==
    /\ rec_pc[t] = "read"
    /\ rec_pc' = [rec_pc EXCEPT ![t] = "put"]
    /\ UNCHANGED <<recording_thread, put_log, cap_pc, is_recording>>
    /\ UNCHANGED <<orchLocals, bufVars>>
    /\ UNCHANGED <<segVars, cacheVars, hubVars, profVars>>

\* self._audio_queue.put(audio_bytes), then back to the while condition
_record_audio_put(t) ==
    /\ rec_pc[t] = "put"
    /\ Len(put_log) < MaxPuts
    /\ put_log' = Append(put_log, t)
    /\ rec_pc' = [rec_pc EXCEPT ![t] = "check"]
    /\ UNCHANGED <<recording_thread, cap_pc, is_recording>>
    /\ UNCHANGED <<orchLocals, bufVars>>
    /\ UNCHANGED <<segVars, cacheVars, hubVars, profVars>>

\* opening or reading the stream raises: the handler clears the flag and
\* the thread ends
_record_audio_fails(t) ==
    /\ rec_pc[t] \in {"open", "read"}
    /\ rec_pc' = [rec_pc EXCEPT ![t] = "exited"]
    /\ is_recording' = FALSE
    /\ UNCHANGED <<recording_thread, put_log, cap_pc>>
    /\ UNCHANGED <<orchLocals, bufVars>>
    /\ UNCHANGED <<segVars, cacheVars, hubVars, profVars>>

\* stop_recording, to the join: nothing if the flag is clear; else the flag
\* is cleared and a thread that is alive is joined
capture_stop_recording ==
    /\ cap_pc = "idle"
    /\ is_recording
    /\ is_recording' = FALSE
    /\ cap_pc' = IF /\ recording_thread /= None
                    /\ rec_pc[Val(recording_thread)] /= "exited"
                 THEN "join" ELSE "idle"
    /\ UNCHANGED <<rec_pc, recording_thread, put_log>>
    /\ UNCHANGED <<orchLocals, bufVars>>
    /\ UNCHANGED <<segVars, cacheVars, hubVars, profVars>>

\* join(timeout=1.0) returns: the thread has ended, or the second is over
\* while the thread is still in stream.read, and the thread is left behind
capture_join_returns ==
    /\ cap_pc = "join"
    /\ rec_pc[Val(recording_thread)] \in {"exited", "read"}
    /\ cap_pc' = "idle"
    /\ UNCHANGED <<rec_pc, recording_thread, put_log, is_recording>>
    /\ UNCHANGED <<orchLocals, bufVars>>
    /\ UNCHANGED <<segVars, cacheVars, hubVars, profVars>>

NextCap ==
    \/ start_recording
    \/ \E t \in RecThreads : _record_audio_open(t)
    \/ \E t \in RecThreads : _record_audio_check(t)
    \/ \E t \in RecThreads : _record_audio_read(t)
    \/ \E t \in RecThreads : _record_audio_put(t)
    \/ \E t \in RecThreads : _record_audio_fails(t)
    \/ capture_stop_recording
    \/ capture_join_returns

\* C22 as stated: the chunks on the hand-off queue come from one thread at
\* a time: once a later thread has put a chunk, no earlier thread puts
\* another.
C22_Original ==
    \A i, j \in 1..Len(put_log) : i < j => put_log[i] <= put_log[j]

(***************************************************************************)
(* SpeechAnalysisOrchestrator                                              *)
(* start() is read as the call of start_recording() it evidently is: line  *)
(* 78 of main.py ends with a stray parenthesis.                            *)
(***************************************************************************)
\* Bound: the fragments the transcription hands to the pipeline
MaxPipeFragments == 2

\* the stop() calls of main: the signal handler's task, the finally block
StopCalls == {1, 2}

\* what a transcription call comes to: fragments, no fragment, or a failure
\* inside the engine
TranscriptionOutcomes == {"segments", "empty", "failure"}

\* an engine that lets its failure out
transcription_raising(outcome) ==
    IF outcome = "segments" THEN "segments"
    ELSE IF outcome = "failure" THEN "raised" ELSE "empty"

\* transcribe_audio, process_audio_chunk_async: a failure is caught and an
\* empty list returned
transcription_result(outcome) ==
    IF outcome = "segments" THEN "segments" ELSE "empty"

\* the fragments the engines hand over: they have text
PipeFragments == {seg \in Fragments : NonSpaceCount(seg.text) > 0}

\* what the call of the sentiment API comes to
ApiOutcomes == {"ok", "error"}

\* how _process_utterance goes for one utterance: the sentiment call, if
\* it is made, succeeds, or fails, or it succeeds and a stage after the
\* cache (metrics, event construction, emit_event) raises
UtteranceOutcomes == {<<"ok", "ok">>, <<"error", "ok">>, <<"ok", "raises">>}

\* analyze_utterance: a failure of the API call is caught and the mock
\* analysis is returned instead
analyze_utterance_raising(api) ==
    IF api = "ok" THEN [raised |-> FALSE, scores |-> "api"]
    ELSE [raised |-> TRUE, scores |-> "none"]

analyze_utterance(api) ==
    IF api = "ok" THEN [raised |-> FALSE, scores |-> "api"]
    ELSE [raised |-> FALSE, scores |-> "mock"]

\* the element `for utterance in utterances` takes at position i
for_utterance_reversed(us, i) == us[Len(us) - i + 1]

for_utterance(us, i) == us[i]

\* the variables of the segmenter and of the hub the orchestrator's own
\* steps leave alone
segLocals == <<now, current_utterance, last_activity_time,
               pending_segments, segment_start, segment_end, fed>>
hubLocals == <<event_history, emit_pc, event, it_used, it_visited, targets,
               websocket, file_failed, disconnected_clients, cb_index,
               cb_log, conn, handler_pc, replay, received, emitted>>

InitOrch ==
    /\ is_running = FALSE
    /\ processing_task = "none"
    /\ loop_pc = "none"
    /\ transcription = "none"
    /\ utt_index = 1
    /\ handled = <<>>
    /\ is_recording = FALSE
    /\ thread_alive = FALSE
    /\ stop_pc = [c \in StopCalls |-> "none"]
    /\ audio_buffer = <<>>
    /\ consumed = 0
    /\ handed = <<>>
    /\ servers = {}
    /\ orphans = 0

\* the processing task is alive
TaskRuns == processing_task = "running"

\* start()'s default websocket_port
websocket_port == 8765

\* start, as main calls it: the websocket server on the default port, the
\* file output if one is given, the console callback, the recording
\* thread, the processing task
start(output_file) ==
    /\ processing_task = "none"
    /\ servers = {}
    /\ \A c \in StopCalls : stop_pc[c] = "none"
    /\ servers' = servers \cup {websocket_port}
    /\ UNCHANGED orphans
    /\ file_output' = IF output_file THEN Some("path") ELSE None
    /\ file' = IF output_file THEN Some(<<Header>>) ELSE None
    /\ callbacks' = Append(callbacks, "function")
    /\ is_recording' = TRUE
    /\ thread_alive' = TRUE
    /\ is_running' = TRUE
    /\ processing_task' = "running"
    /\ loop_pc' = "chunks"
    /\ UNCHANGED <<transcription, utt_index, handled, stop_pc>>
    /\ UNCHANGED <<websocket_clients, hubLocals>>
    /\ UNCHANGED <<segVars, cacheVars, profVars, capVars, bufVars>>

\* a client connects to the websocket server while the pipeline runs
subscribe(w) ==
    /\ TaskRuns
    /\ w \notin websocket_clients
    /\ \A v \in Connections : v < w => v \in websocket_clients
    /\ websocket_clients' = websocket_clients \cup {w}
    /\ UNCHANGED <<callbacks, file_output, file, hubLocals>>
    /\ UNCHANGED <<segVars, cacheVars, profVars, orchVars>>

\* _processing_loop has a full buffer: the profiled block is entered
buffer_full ==
    /\ TaskRuns
    /\ loop_pc = "chunks"
    /\ loop_pc' = "transcribe"
    /\ UNCHANGED <<is_running, processing_task, transcription, utt_index,
                   handled, is_recording, thread_alive, stop_pc>>
    /\ UNCHANGED <<segVars, cacheVars, hubVars, profVars, capVars, bufVars,
                   runVars>>

\* the transcription call returns.  With fragments (`if segments:`)
\* process_segments is called: utterances = [].  With none the block is
\* left.  An exception ends the loop.
transcribe(outcome) ==
    /\ TaskRuns
    /\ loop_pc = "transcribe"
    /\ seg_pc = "idle"
    /\ transcription' = outcome
    /\ LET segments == transcription_result(outcome)
       IN  CASE segments = "segments" ->
                  /\ fed < MaxPipeFragments
                  /\ loop_pc' = "segmenting"
                  /\ seg_pc' = "loop"
                  /\ utterances' = <<>>
                  /\ segment' = None
                  /\ utt_index' = 1
                  /\ UNCHANGED processing_task
             [] segments = "empty" ->
                  /\ loop_pc' = "exit"
                  /\ UNCHANGED <<seg_pc, utterances, segment, utt_index,
                                 processing_task>>
             [] OTHER ->
                  /\ loop_pc' = "dead"
                  /\ processing_task' = "failed"
                  /\ UNCHANGED <<seg_pc, utterances, segment, utt_index>>
    /\ UNCHANGED <<is_running, handled, is_recording, thread_alive, stop_pc>>
    /\ UNCHANGED segLocals
    /\ UNCHANGED <<cacheVars, hubVars, profVars, capVars, bufVars,
                   runVars>>

\* process_segments, called by the loop, takes the next fragment
OrchProcessSegment(seg) ==
    /\ TaskRuns
    /\ loop_pc = "segmenting"
    /\ fed < MaxPipeFragments
    /\ ProcessSegment(seg)

\* process_segments, called by the loop with at least one fragment, returns
OrchProcessReturn ==
    /\ TaskRuns
    /\ loop_pc = "segmenting"
    /\ segment /= None
    /\ ProcessReturn

\* time passes while the pipeline runs
OrchTick(d) == TaskRuns /\ Tick(d)

\* a stage of the loop outside _process_utterance raises: the segmenter
\* call, or end_timing when the profiled block is left.  The loop's
\* handler logs the exception and raises it again.
stage_raises ==
    /\ TaskRuns
    /\ \/ loop_pc = "segmenting" /\ seg_pc = "loop"
       \/ loop_pc = "segmenting" /\ seg_pc = "idle"
             /\ utt_index > Len(utterances)
       \/ loop_pc = "exit"
    /\ loop_pc' = "dead"
    /\ processing_task' = "failed"
    /\ UNCHANGED <<is_running, transcription, utt_index, handled,
                   is_recording, thread_alive, stop_pc>>
    /\ UNCHANGED <<segVars, cacheVars, hubVars, profVars, capVars, bufVars,
                   runVars>>

\* the speaker labels as the strings the cache key is built from
Chars(name) ==
    CASE name = "S1" -> <<"S", "1">>
      [] name = "S2" -> <<"S", "2">>
      [] name = "a" -> <<"a">>
      [] name = "a:b" -> <<"a", ":", "b">>

\* _process_utterance for the next utterance of the list: the cache is
\* asked first; on a miss the sentiment call is made and its result is
\* cached; then the metrics, the event and emit_event.  An exception of any
\* of them is caught and logged, and the event is dropped.  The cache,
\* built with the default max_size, has room for every utterance of the
\* run.
_process_utterance(api, stage) ==
    /\ TaskRuns
    /\ loop_pc = "segmenting"
    /\ seg_pc = "idle"
    /\ utt_index <= Len(utterances)
    /\ Len(cache) < max_size
    /\ LET utterance == for_utterance(utterances, utt_index)
           cached_scores == CacheGetResult(cache, utterance.text,
                                           Chars(utterance.speaker))
           sentiment == analyze_utterance(api)
       IN  IF cached_scores /= None
           THEN /\ handled' = Append(handled,
                      [utterance |-> utterance,
                       outcome |-> IF stage = "raises" THEN "dropped"
                                   ELSE "emitted",
                       api |-> "unused", scores |-> Val(cached_scores)])
                /\ UNCHANGED cache
           ELSE IF sentiment.raised
           THEN /\ handled' = Append(handled,
                      [utterance |-> utterance, outcome |-> "dropped",
                       api |-> api, scores |-> "none"])
                /\ UNCHANGED cache
           ELSE /\ handled' = Append(handled,
                      [utterance |-> utterance,
                       outcome |-> IF stage = "raises" THEN "dropped"
                                   ELSE "emitted",
                       api |-> api, scores |-> sentiment.scores])
                /\ cache' = CacheSetResult(cache, max_size, utterance.text,
                                           Chars(utterance.speaker),
                                           sentiment.scores)
    /\ utt_index' = utt_index + 1
    /\ UNCHANGED <<is_running, processing_task, loop_pc, transcription,
                   is_recording, thread_alive, stop_pc>>
    /\ UNCHANGED <<max_size, cache_call, mock_calls>>
    /\ UNCHANGED <<segVars, hubVars, profVars, capVars, bufVars,
                   runVars>>

\* the profiled block is left and the buffer cleared: the loop waits for
\* the next chunks
buffer_done ==
    /\ TaskRuns
    /\ \/ loop_pc = "segmenting" /\ seg_pc = "idle"
             /\ utt_index > Len(utterances)
       \/ loop_pc = "exit"
    /\ loop_pc' = "chunks"
    /\ transcription' = "none"
    /\ audio_buffer' = <<>>
    /\ UNCHANGED <<is_running, processing_task, utt_index, handled,
                   is_recording, thread_alive, stop_pc>>
    /\ UNCHANGED <<consumed, handed>>
    /\ UNCHANGED <<segVars, cacheVars, hubVars, profVars, capVars,
                   runVars>>

\* the recording thread fails and the queue runs empty: get_audio_chunks
\* ends, and the loop with it
stream_ends ==
    /\ TaskRuns
    /\ loop_pc = "chunks"
    /\ is_recording' = FALSE
    /\ thread_alive' = FALSE
    /\ loop_pc' = "dead"
    /\ processing_task' = "finished"
    /\ UNCHANGED <<is_running, transcription, utt_index, handled, stop_pc>>
    /\ UNCHANGED <<segVars, cacheVars, hubVars, profVars, capVars, bufVars,
                   runVars>>

\* stop, to its first await: the flag is cleared and the processing task,
\* if there is one, is cancelled and awaited
stop_begin(c) ==
    /\ stop_pc[c] = "none"
    /\ \A b \in StopCalls : b < c => stop_pc[b] /= "none"
    /\ is_running' = FALSE
    /\ processing_task' = IF TaskRuns THEN "cancelled" ELSE processing_task
    /\ loop_pc' = IF TaskRuns THEN "dead" ELSE loop_pc
    /\ stop_pc' = [stop_pc EXCEPT ![c] = IF processing_task = "none"
                                         THEN "stop_recording"
                                         ELSE "await"]
    /\ UNCHANGED <<transcription, utt_index, handled, is_recording,
                   thread_alive>>
    /\ UNCHANGED <<segVars, cacheVars, hubVars, profVars, capVars, bufVars,
                   runVars>>

\* `await self.processing_task` is over: CancelledError is caught, any
\* other exception the task ended with is raised out of stop
stop_awaited(c) ==
    /\ stop_pc[c] = "await"
    /\ stop_pc' = [stop_pc EXCEPT ![c] = IF processing_task = "failed"
                                         THEN "raised"
                                         ELSE "stop_recording"]
    /\ UNCHANGED <<is_running, processing_task, loop_pc, transcription,
                   utt_index, handled, is_recording, thread_alive>>
    /\ UNCHANGED <<segVars, cacheVars, hubVars, profVars, capVars, bufVars,
                   runVars>>

\* audio_capture.stop_recording: the thread is joined for at most 1.0 s,
\* and it has exited by then or not
stop_recording(c) ==
    /\ stop_pc[c] = "stop_recording"
    /\ stop_pc' = [stop_pc EXCEPT ![c] = "close_file"]
    /\ IF ~is_recording
       THEN UNCHANGED <<is_recording, thread_alive>>
       ELSE /\ is_recording' = FALSE
            /\ thread_alive' \in {thread_alive, FALSE}
    /\ UNCHANGED <<is_running, processing_task, loop_pc, transcription,
                   utt_index, handled>>
    /\ UNCHANGED <<segVars, cacheVars, hubVars, profVars, capVars, bufVars,
                   runVars>>

\* event_emitter.close_file()
stop_close_file(c) ==
    /\ stop_pc[c] = "close_file"
    /\ stop_pc' = [stop_pc EXCEPT ![c] = "close_websocket_server"]
    /\ file' = close_file_result(file_output, file)
    /\ UNCHANGED <<is_running, processing_task, loop_pc, transcription,
                   utt_index, handled, is_recording, thread_alive>>
    /\ UNCHANGED <<websocket_clients, callbacks, file_output, hubLocals>>
    /\ UNCHANGED <<segVars, cacheVars, profVars, capVars, bufVars,
                   runVars>>

\* event_emitter.close_websocket_server(): the connections are closed and
\* the set is cleared; stop returns
stop_close_websocket_server(c) ==
    /\ stop_pc[c] = "close_websocket_server"
    /\ stop_pc' = [stop_pc EXCEPT ![c] = "done"]
    /\ websocket_clients' = {}
    /\ UNCHANGED <<is_running, processing_task, loop_pc, transcription,
                   utt_index, handled, is_recording, thread_alive>>
    /\ UNCHANGED <<callbacks, file_output, file, hubLocals>>
    /\ UNCHANGED <<segVars, cacheVars, profVars, capVars, bufVars,
                   runVars>>

\* the life cycle of the orchestrator, on audio in which the engines find
\* no speech
NextOrch ==
    \/ \E output_file \in BOOLEAN : start(output_file)
    \/ \E w \in Connections : subscribe(w)
    \/ buffer_full
    \/ \E outcome \in {"empty", "failure"} : transcribe(outcome)
    \/ stage_raises
    \/ buffer_done
    \/ stream_ends
    \/ \E c \in StopCalls : stop_begin(c)
    \/ \E c \in StopCalls : stop_awaited(c)
    \/ \E c \in StopCalls : stop_recording(c)
    \/ \E c \in StopCalls : stop_close_file(c)
    \/ \E c \in StopCalls : stop_close_websocket_server(c)

\* Bound: the start() calls made while the pipeline already runs
MaxRestarts == 2

\* the ports start() is called with
Ports == websocket_port..(websocket_port + MaxRestarts)

\* start() called while the pipeline runs and its loop waits for a chunk.
\* On a port that has a server websockets.serve raises OSError and start
\* ends there.  On a free port a server is started, the console callback
\* is appended once more, start_recording returns at once (the flag is
\* set), and a new task replaces the one self.processing_task referred
\* to, which keeps running.
start_again(port) ==
    /\ TaskRuns
    /\ loop_pc = "chunks"
    /\ orphans < MaxRestarts
    /\ IF port \in servers
       THEN UNCHANGED <<servers, orphans, callbacks, is_running,
                        processing_task, loop_pc>>
       ELSE /\ servers' = servers \cup {port}
            /\ callbacks' = Append(callbacks, "function")
            /\ is_running' = TRUE
            /\ processing_task' = "running"
            /\ loop_pc' = "chunks"
            /\ orphans' = orphans + 1
    /\ UNCHANGED <<transcription, utt_index, handled, is_recording,
                   thread_alive, stop_pc>>
    /\ UNCHANGED <<websocket_clients, file_output, file, hubLocals>>
    /\ UNCHANGED <<segVars, cacheVars, profVars, capVars, bufVars>>

\* a loop no longer referred to ends: recording has stopped and the queue
\* has run empty, so its get_audio_chunks ends
orphan_ends ==
    /\ orphans > 0
    /\ ~is_recording
    /\ orphans' = orphans - 1
    /\ UNCHANGED servers
    /\ UNCHANGED <<is_running, processing_task, loop_pc, transcription,
                   utt_index, handled, is_recording, thread_alive, stop_pc,
                   capVars, bufVars>>
    /\ UNCHANGED <<segVars, cacheVars, hubVars, profVars>>

\* the life cycle with start() called again while the pipeline runs
NextRestart ==
    \/ \E output_file \in BOOLEAN : start(output_file)
    \/ \E port \in Ports : start_again(port)
    \/ buffer_full
    \/ transcribe("empty")
    \/ buffer_done
    \/ \E c \in StopCalls : stop_begin(c)
    \/ \E c \in StopCalls : stop_awaited(c)
    \/ \E c \in StopCalls : stop_recording(c)
    \/ \E c \in StopCalls : stop_close_file(c)
    \/ \E c \in StopCalls : stop_close_websocket_server(c)
    \/ orphan_ends

\* start, when start_recording finds no input device: RuntimeError is
\* raised out of start after the server was started and the console
\* callback added, before the flag is set and the task created
start_raises ==
    /\ processing_task = "none"
    /\ servers = {}
    /\ \A c \in StopCalls : stop_pc[c] = "none"
    /\ servers' = servers \cup {websocket_port}
    /\ callbacks' = Append(callbacks, "function")
    /\ UNCHANGED orphans
    /\ UNCHANGED <<is_running, processing_task, loop_pc, transcription,
                   utt_index, handled, is_recording, thread_alive, stop_pc>>
    /\ UNCHANGED <<websocket_clients, file_output, file, hubLocals>>
    /\ UNCHANGED <<segVars, cacheVars, profVars, capVars, bufVars>>

\* main, after start: `while orchestrator.is_running` is left once the
\* flag is clear, or never entered because start raised; the finally
\* block calls stop
main_finally ==
    /\ servers /= {}
    /\ ~is_running
    /\ stop_begin(1)

\* main without a signal: the pipeline runs until the stream ends or an
\* exception leaves the loop, and main waits for the flag
NextWait ==
    \/ start(FALSE)
    \/ start_raises
    \/ buffer_full
    \/ \E outcome \in TranscriptionOutcomes : transcribe(outcome)
    \/ \E seg \in PipeFragments : OrchProcessSegment(seg)
    \/ OrchProcessReturn
    \/ \E d \in Advance : OrchTick(d)
    \/ \E o \in UtteranceOutcomes : _process_utterance(o[1], o[2])
    \/ stage_raises
    \/ buffer_done
    \/ stream_ends
    \/ main_finally
    \/ stop_recording(1)
    \/ stop_close_file(1)
    \/ stop_close_websocket_server(1)

\* the running pipeline, with no file output: buffers are transcribed,
\* segmented and their utterances processed until the stream ends
NextPipe ==
    \/ start(FALSE)
    \/ buffer_full
    \/ \E outcome \in TranscriptionOutcomes : transcribe(outcome)
    \/ \E seg \in PipeFragments : OrchProcessSegment(seg)
    \/ OrchProcessReturn
    \/ \E d \in Advance : OrchTick(d)
    \/ \E o \in UtteranceOutcomes : _process_utterance(o[1], o[2])
    \/ buffer_done
    \/ stream_ends

\* process_segments goes on in its executor thread after the task that
\* awaited it was cancelled: the next fragment of its list
executor_process_segment(seg) ==
    /\ processing_task = "cancelled"
    /\ seg_pc = "loop"
    /\ fed < MaxPipeFragments
    /\ ProcessSegment(seg)

\* and the end of that process_segments call
executor_process_return ==
    /\ processing_task = "cancelled"
    /\ seg_pc = "loop"
    /\ ProcessReturn

\* the pipeline and one stop() call
NextHalt ==
    \/ start(FALSE)
    \/ buffer_full
    \/ transcribe("segments")
    \/ \E seg \in PipeFragments : OrchProcessSegment(seg)
    \/ OrchProcessReturn
    \/ \E api \in ApiOutcomes : _process_utterance(api, "ok")
    \/ buffer_done
    \/ stop_begin(1)
    \/ stop_awaited(1)
    \/ stop_recording(1)
    \/ stop_close_file(1)
    \/ stop_close_websocket_server(1)
    \/ \E seg \in PipeFragments : executor_process_segment(seg)
    \/ executor_process_return

\* AsyncAudioCapture's chunk_size, in frames of 2 bytes each
chunk_size == 1024
ChunkBytes == chunk_size * 2

\* target_buffer_size = int(16000 * 2 * buffer_duration)
target_buffer_size == 96000

\* Bound: the chunks the loop takes from get_audio_chunks
MaxChunks == 100

BufferBytes(buffer) == Len(buffer) * ChunkBytes

\* one iteration of `async for audio_chunk in get_audio_chunks()`: the
\* chunk is added to the buffer, and a buffer that has reached the target
\* size is handed to the transcription
audio_chunk ==
    /\ TaskRuns
    /\ loop_pc = "chunks"
    /\ consumed < MaxChunks
    /\ consumed' = consumed + 1
    /\ audio_buffer' = Append(audio_buffer, consumed + 1)
    /\ IF BufferBytes(audio_buffer') >= target_buffer_size
       THEN /\ loop_pc' = "transcribe"
            /\ handed' = Append(handed, audio_buffer')
       ELSE UNCHANGED <<loop_pc, handed>>
    /\ UNCHANGED <<is_running, processing_task, transcription, utt_index,
                   handled, is_recording, thread_alive, stop_pc>>
    /\ UNCHANGED <<segVars, cacheVars, hubVars, profVars, capVars,
                   runVars>>

\* the loop with its buffer, on audio in which the engines find at most
\* the fragment 'hi'
NextBuf ==
    \/ start(FALSE)
    \/ audio_chunk
    \/ \E outcome \in TranscriptionOutcomes : transcribe(outcome)
    \/ OrchProcessSegment(Frag("S1", T_hi, 0, 10, ConfScale))
    \/ OrchProcessReturn
    \/ buffer_done
    \/ stream_ends

\* fragments of two speakers whose labels and texts hold the character the
\* cache key is joined with
T_b_hi == <<"b", ":", "h", "i">>

ColonFragments ==
    { Frag("a", T_b_hi, 0, 10, ConfScale),
      Frag("a:b", T_hi, 10, 20, ConfScale) }

\* the running pipeline on those fragments
NextColon ==
    \/ start(FALSE)
    \/ buffer_full
    \/ transcribe("segments")
    \/ \E seg \in ColonFragments : OrchProcessSegment(seg)
    \/ OrchProcessReturn
    \/ \E d \in Advance : OrchTick(d)
    \/ \E api \in ApiOutcomes : _process_utterance(api, "ok")
    \/ buffer_done

(***************************************************************************)
(* Properties of the orchestrator (checked under SpecOrch and SpecPipe)    *)
(***************************************************************************)
\* every stop() call that was made is over
StopsOver ==
    /\ \E c \in StopCalls : stop_pc[c] /= "none"
    /\ \A c \in StopCalls : stop_pc[c] \in {"none", "done", "raised"}

\* C11: a stop() that follows or overlaps a stop() that returned raises
\* nothing and leaves what that one stop() left: the flag cleared, no
\* subscriber, and the sink file closed once.
C11_Original ==
    /\ (\E c \in StopCalls : stop_pc[c] = "done")
          => \A c \in StopCalls : stop_pc[c] /= "raised"
    /\ (StopsOver /\ \A c \in StopCalls : stop_pc[c] /= "raised")
          => /\ ~is_running
             /\ websocket_clients = {}
             /\ file /= None => Closings(Val(file)) = 1

\* a step in which _process_utterance handles one utterance
UtteranceStep == Len(handled') = Len(handled) + 1

C13_Original == processing_task /= "failed"

\* an utterance is open and its timeout has passed
TimedOutOpen ==
    _should_finalize_timeout(current_utterance, last_activity_time, now)

\* C14: a buffer that yields no fragment still finalizes the open
\* utterance whose timeout has passed, and no utterance is left open when
\* the stream ends.
C14_Original ==
    [][/\ (loop_pc = "transcribe" /\ loop_pc' = "exit") => ~TimedOutOpen'
       /\ (loop_pc = "chunks" /\ loop_pc' = "dead")
             => current_utterance' = None
      ]_vars

\* the utterances of the list the for loop has passed to
\* _process_utterance so far
HandledOfList ==
    [i \in 1..(utt_index - 1) |->
        handled[Len(handled) - (utt_index - 1) + i].utterance]

\* C15: what process_segments appends to its result is the utterance that
\* was open before the fragment at hand, so the result is in finalization
\* order and every utterance in it is made of earlier fragments than the
\* next; the loop passes the utterances of the result on in that order, each
\* once.
C15_Order ==
    /\ [](loop_pc = "segmenting" /\ seg_pc = "idle"
             => /\ utt_index <= Len(utterances) + 1
                /\ utt_index - 1 <= Len(handled)
                /\ HandledOfList = SubSeq(utterances, 1, utt_index - 1))
    /\ [][/\ FragmentStep
                => \/ utterances' = utterances
                   \/ /\ current_utterance /= None
                      /\ utterances' = utterances \o
                            _finalize_current_utterance(current_utterance,
                                                        last_activity_time,
                                                        now)
          /\ UtteranceStep
                => /\ utt_index' = utt_index + 1
                   /\ SubSeq(handled', 1, Len(handled)) = handled
                   /\ handled'[Len(handled')].utterance
                         = utterances[utt_index]
         ]_vars

\* two utterances of one result were passed on and emitted
C15_Witness ==
    /\ loop_pc = "segmenting"
    /\ seg_pc = "idle"
    /\ utt_index = 3
    /\ Len(utterances) = 2
    /\ utterances[1] /= utterances[2]
    /\ handled[Len(handled) - 1].outcome = "emitted"
    /\ handled[Len(handled)].outcome = "emitted"

\* C20: stop() comes to its end without raising, and when it is over the
\* recording flag is cleared, the sink file is closed and no subscriber is
\* left.
C20_Original ==
    /\ \A c \in StopCalls : stop_pc[c] /= "raised"
    /\ \A c \in StopCalls :
          stop_pc[c] = "done"
             => /\ ~is_recording
                /\ websocket_clients = {}
                /\ file /= None => Closings(Val(file)) >= 1

\* the utterances handled so far that have the speaker and the text of u
\* and whose scores were stored in the cache
StoredFor(u) ==
    {j \in 1..Len(handled) :
        /\ handled[j].utterance.speaker = u.speaker
        /\ handled[j].utterance.text = u.text
        /\ handled[j].api /= "unused"
        /\ handled[j].scores /= "none"}

\* C25 as stated: the sentiment call is made for an utterance if and only
\* if no scores were stored for its speaker and text; on a hit the scores
\* used are the stored ones; afterwards the cache answers for that speaker
\* and text.
C25_Original ==
    [][UtteranceStep
          => LET e == handled'[Len(handled')]
                 u == e.utterance
             IN  /\ e.api = "unused" <=> StoredFor(u) /= {}
                 /\ e.api = "unused"
                       => \E j \in StoredFor(u) : e.scores = handled[j].scores
                 /\ e.scores /= "none"
                       => CacheGetResult(cache', u.text, Chars(u.speaker))
                             = Some(e.scores)
      ]_vars

\* the chunks of a list of buffers, in order
RECURSIVE Flatten(_)
Flatten(buffers) ==
    IF buffers = <<>> THEN <<>>
    ELSE Head(buffers) \o Flatten(Tail(buffers))

\* C27 as stated: every buffer handed to the transcription has at least
\* the target size; the buffers handed so far, with the chunks accumulated
\* since, are the chunks taken so far, each once and in arrival order, and
\* the buffer is empty when the loop takes the next chunk after a call;
\* once the loop has ended every chunk it took was handed over.
C27_Original ==
    /\ \A k \in 1..Len(handed) :
          BufferBytes(handed[k]) >= target_buffer_size
    /\ (TaskRuns /\ loop_pc = "chunks")
          => Flatten(handed) \o audio_buffer = [i \in 1..consumed |-> i]
    /\ (TaskRuns /\ loop_pc /= "chunks")
          => /\ Flatten(handed) = [i \in 1..consumed |-> i]
             /\ audio_buffer = handed[Len(handed)]
    /\ processing_task = "finished"
          => Flatten(handed) = [i \in 1..consumed |-> i]

\* C21 as stated: once a stop() call has returned, the open utterance,
\* the last activity time, the fragments counted, the result list, the
\* cache, the hub's history, the messages delivered and the utterances
\* handled do not change any more.
C21_Original ==
    [][(\E c \in StopCalls : stop_pc[c] = "done")
          => UNCHANGED <<current_utterance, last_activity_time,
                         pending_segments, utterances, fed, cache,
                         event_history, emitted, received, handled>>
      ]_vars

(***************************************************************************)
(* Specifications                                                          *)
(***************************************************************************)
\* the _processing_loop tasks that run
LiveLoops == orphans + (IF TaskRuns THEN 1 ELSE 0)

\* the console callbacks registered with the hub
ConsoleCallbacks == {i \in 1..Len(callbacks) : callbacks[i] = "function"}

\* C34 as stated: whatever start() and stop() calls are made, at most one
\* processing loop runs and at most one console callback is registered.
C34_Original ==
    /\ LiveLoops <= 1
    /\ Cardinality(ConsoleCallbacks) <= 1

\* C35 as stated: once the processing loop has ended, because the stream
\* ended or because an exception left it, the running flag becomes false.
C35_Original ==
    (processing_task \in {"finished", "failed"}) ~> ~is_running

\* C38 as stated: the cache never holds a vector of the fallback scorer,
\* so that an utterance whose sentiment call failed is not answered from
\* the cache later.
C38_Original ==
    /\ \A i \in 1..Len(cache) : cache[i].value /= "mock"
    /\ \A j \in 1..Len(handled) :
          handled[j].api = "unused" => handled[j].scores /= "mock"

Init ==
    /\ InitSeg /\ InitCache({MaxCacheSize}) /\ InitHub /\ InitProf
    /\ InitCap /\ InitOrch
InitCacheSizes ==
    /\ InitSeg /\ InitCache(0..MaxCacheSize) /\ InitHub /\ InitProf
    /\ InitCap /\ InitOrch

SpecSeg == Init /\ [][NextSeg]_vars
SpecTalk == Init /\ [][NextTalk]_vars
SpecAsync == Init /\ [][NextAsync]_vars
SpecCache == InitCacheSizes /\ [][NextCache]_vars
SpecMock == Init /\ [][NextMock]_vars
SpecHub == Init /\ [][NextHub]_vars
SpecSink == Init /\ [][NextSink]_vars
SpecProf == Init /\ [][NextProf]_vars
SpecExit == Init /\ [][NextExit]_vars
SpecStats == Init /\ [][NextStats]_vars
SpecCap == Init /\ [][NextCap]_vars
SpecOrch == Init /\ [][NextOrch]_vars
SpecPipe == Init /\ [][NextPipe]_vars
SpecHalt == Init /\ [][NextHalt]_vars
SpecRestart == Init /\ [][NextRestart]_vars
\* the event loop runs every task that is ready, and threads make progress
SpecWait == Init /\ [][NextWait]_vars /\ WF_vars(NextWait)
SpecBuf == Init /\ [][NextBuf]_vars
SpecColon == Init /\ [][NextColon]_vars
============================================================================
